---- MODULE Spec2Model ----
(***************************************************************************)
(* A model of src/v2.py: the VPS inventory, the credit ledger and the      *)
(* admin set kept in memory and on disk, the handlers that create, buy,    *)
(* delete, start, stop, restart and bulk-stop containers through the       *)
(* incus command line, and the CPU monitor thread.                         *)
(*                                                                         *)
(* Granularity.  The handlers are asyncio coroutines on one event loop: a  *)
(* handler runs without interruption between two awaits.  One action of    *)
(* the model is one such run: from the handler's entry to its first wait   *)
(* on an incus process, or from the end of that wait to the next one.  The *)
(* effect of an incus command on the runtime is applied in the step that   *)
(* ends the wait.  The CPU monitor is a separate thread; one action of the *)
(* model is one pass of its loop up to the bulk stop or the sleep.         *)
(*                                                                         *)
(* The runtime (incus) is outside the program.  It is modelled as a map    *)
(* from the names of the existing containers to their state, changed only  *)
(* by a command of this program that exits 0.  A command that exits        *)
(* non-zero or runs into the timeout leaves the runtime as it was.         *)
(***************************************************************************)
EXTENDS Integers, Sequences, FiniteSets, Bags, TLC

VARIABLES
    user_data,          \* v2.py:90   tenant -> [credits]
    vps_data,           \* v2.py:91   tenant -> sequence of VPS records
    admin_data,         \* v2.py:92   [admins |-> sequence of tenant ids]
    cpu_monitor_active, \* v2.py:45   the monitor's flag
    disk,               \* the three JSON documents as last written by save_data
    incus,              \* the runtime: container name -> "running" | "stopped"
    tasks,              \* bag of handlers waiting on an incus process
    monitor,            \* the cpu_monitor thread: its position and loop state
    views,              \* the open discord views (ManageView, ConfirmView)
    top,                \* the runs of "top -bn1" on the host and how many the
                        \* monitor has read
    issued,             \* the incus commands the latest handler step issued
    resp,               \* what the latest step reported to its caller
    nops                \* handlers accepted so far; also the model's clock

vars == <<user_data, vps_data, admin_data, cpu_monitor_active, disk, incus,
          tasks, monitor, views, top, issued, resp, nops>>

-----------------------------------------------------------------------------
(* Bounds of the model *)

\* handlers that get past their checks and reach the runtime or the store
MaxOps == 3
\* handlers waiting on an incus process at the same time
MaxTasks == 2

-----------------------------------------------------------------------------
(* Program constants *)

MAIN_ADMIN_ID == "1405866008127864852"
CPU_THRESHOLD == 90
CHECK_INTERVAL == 60

\* the tenants of the model: the main admin and two members
Tenants == {"u1", "u2"}
Callers == Tenants \cup {MAIN_ADMIN_ID}

None == "None"

-----------------------------------------------------------------------------
(* Python values *)

\* a dict is a function whose domain is its key set
EmptyDict == [k \in {} |-> <<>>]
DictSet(d, k, v) == [x \in (DOMAIN d) \cup {k} |-> IF x = k THEN v ELSE d[x]]
DictDel(d, k) == [x \in (DOMAIN d) \ {k} |-> d[x]]

\* del s[i] on a list, i 1-based
RemoveAt(s, i) == SubSeq(s, 1, i - 1) \o SubSeq(s, i + 1, Len(s))

\* x in s, for a list s
InList(x, s) == \E i \in 1..Len(s) : s[i] = x

\* a text is a list of tokens: a decimal number or a word
Number(n) == [word |-> "", n |-> n]
Word(w) == [word |-> w, n |-> 0]
\* str(n)
Str(n) == <<Number(n)>>
\* f"{ram}GB"
GBText(ram) == Str(ram) \o <<Word("GB")>>
\* int(text.replace("GB", ""))
NotGB(token) == token /= Word("GB")
ParseGB(text) == Head(SelectSeq(text, NotGB)).n

\* f"vps-{user_id}-{vps_count}"
ContainerName(user_id, vps_count) == <<"vps", user_id, vps_count>>

\* datetime.now(): the model's clock is the number of handlers accepted
Now == nops

-----------------------------------------------------------------------------
(* Record store *)

\* load_data, load_vps_data, load_admin_data with no file on disk
LoadedUserData == EmptyDict
LoadedVpsData == EmptyDict
LoadedAdminData == [admins |-> <<MAIN_ADMIN_ID>>]

\* A file of the store is missing, is not JSON, or holds a JSON document.
\* A JSON value carries its type; a dict is the list of its <<key, value>>
\* pairs in the order of the file.
Missing == [kind |-> "missing", value |-> None]
Corrupt == [kind |-> "corrupt", value |-> None]
JsonFile(v) == [kind |-> "json", value |-> v]
JDict(pairs) == [type |-> "dict", items |-> pairs]
JList(xs) == [type |-> "list", items |-> xs]
JStr(x) == [type |-> "str", items |-> <<x>>]
JNum(n) == [type |-> "int", items |-> <<n>>]
JNull == [type |-> "null", items |-> <<>>]

\* k in v, and list(v.values()), for a dict v
HasKey(v, k) == \E i \in 1..Len(v.items) : v.items[i][1] = k
Values(v) == [i \in 1..Len(v.items) |-> v.items[i][2]]

\* lines 51-57: json.load, or {} on FileNotFoundError / JSONDecodeError
load_data(file) == IF file.kind = "json" THEN file.value ELSE LoadedUserData

\* the per-tenant value with every dict taken for one record
AsList_dict_wrapped(v) == IF v.type = "dict" THEN <<v>> ELSE v.items

\* lines 65-71: the list a per-tenant value becomes
AsList(v) ==
    IF v.type = "dict"
    THEN IF HasKey(v, "container_name") THEN <<v>> ELSE Values(v)
    ELSE v.items

\* lines 59-79.  loaded.items() is called on whatever json.load returned: a
\* document that is not an object raises AttributeError, which the except of
\* line 77 does not catch.  A per-tenant value that is neither a dict nor a
\* list is skipped.
load_vps_data(file) ==
    IF file.kind /= "json"
    THEN [raised |-> FALSE, value |-> LoadedVpsData]
    ELSE IF file.value.type /= "dict"
    THEN [raised |-> TRUE, error |-> "AttributeError"]
    ELSE LET pairs == file.value.items
             kept == {i \in 1..Len(pairs) : pairs[i][2].type \in {"dict", "list"}}
             at(uid) == CHOOSE i \in kept : pairs[i][1] = uid
         IN  [raised |-> FALSE,
              value |-> [uid \in {pairs[i][1] : i \in kept} |->
                            AsList(pairs[at(uid)][2])]]

\* lines 81-87
load_admin_data(file) == IF file.kind = "json" THEN file.value ELSE LoadedAdminData

\* the documents save_data writes, given the three in-memory sets
Documents(ud, vd, ad) == [user_data |-> ud, vps_data |-> vd, admin_data |-> ad]

\* save_data(): all three documents are rewritten from memory
save_data(ud, vd, ad) == disk' = Documents(ud, vd, ad)

\* the is_admin() check of the admin commands
IsAdminCaller(caller) ==
    caller = MAIN_ADMIN_ID \/ InList(caller, admin_data.admins)

-----------------------------------------------------------------------------
(* Process runner and runtime *)

\* the ways one incus process can end, as execute_incus classifies them
Outcomes == {"ok", "failed", "timeout"}

\* the command lines the handlers build (cpu is the text put in the line)
LaunchCmd(container_name, ram_mb, cpu) ==
    [cmd |-> "launch", name |-> container_name, memory |-> ram_mb, cpu |-> cpu]
DeleteCmd(container_name) == [cmd |-> "delete", name |-> container_name]
RestartCmd(container_name) == [cmd |-> "restart", name |-> container_name]
StartCmd(container_name) == [cmd |-> "start", name |-> container_name]
StopCmd(container_name) == [cmd |-> "stop", name |-> container_name]
StopAllCmd == [cmd |-> "stop --all --force"]
IpAddrCmd(container_name) == [cmd |-> "exec ip addr show eth0", name |-> container_name]
DeviceSetCmd(container_name, key, addr) ==
    [cmd |-> "config device set", name |-> container_name, key |-> key, addr |-> addr]

\* whether the runtime can carry out the command in its present state: a name
\* is launched once, and only an existing container is deleted, restarted,
\* started, stopped or entered
CanSucceed(c, rt) ==
    CASE c.cmd = "launch" -> c.name \notin DOMAIN rt
      [] c.cmd = "delete" -> c.name \in DOMAIN rt
      [] c.cmd = "restart" -> c.name \in DOMAIN rt /\ rt[c.name] = "running"
      [] c.cmd = "start" -> c.name \in DOMAIN rt /\ rt[c.name] = "stopped"
      [] c.cmd = "stop" -> c.name \in DOMAIN rt /\ rt[c.name] = "running"
      [] c.cmd = "exec ip addr show eth0" ->
            c.name \in DOMAIN rt /\ rt[c.name] = "running"
      [] c.cmd = "config device set" -> c.name \in DOMAIN rt
      [] OTHER -> TRUE

\* the runtime after the command has exited 0
Effect(c, rt) ==
    CASE c.cmd = "launch" -> DictSet(rt, c.name, "running")
      [] c.cmd = "delete" -> DictDel(rt, c.name)
      [] c.cmd = "restart" -> DictSet(rt, c.name, "running")
      [] c.cmd = "start" -> DictSet(rt, c.name, "running")
      [] c.cmd = "stop" -> DictSet(rt, c.name, "stopped")
      [] c.cmd = "stop --all --force" -> [n \in DOMAIN rt |-> "stopped"]
      [] OTHER -> rt

\* the runtime after the command ended with outcome o
After(c, o, rt) == IF o = "ok" THEN Effect(c, rt) ELSE rt

\* the outcomes the runtime can give the command
Possible(c, o, rt) == o = "ok" => CanSucceed(c, rt)

\* execute_incus: what the caller gets for an outcome and the trimmed stdout
\* (a list of lines).  Exit 0 returns the text, or True when the text is
\* empty; a non-zero exit and a timeout raise.
NoOutput == <<>>
execute_incus(o, stdout) ==
    CASE o = "ok" -> [raised |-> FALSE,
                      value |-> IF stdout /= NoOutput
                                THEN [type |-> "str", text |-> stdout]
                                ELSE [type |-> "bool", text |-> <<>>]]
      [] o = "timeout" -> [raised |-> TRUE, error |-> "timed out"]
      [] OTHER -> [raised |-> TRUE, error |-> "command failed"]

\* execute_lxc is called by ManageView (v2.py:468-543) and defined nowhere in
\* the program: looking the name up raises NameError before any process is
\* started, whatever the runtime would have answered
execute_lxc(o, stdout) == [raised |-> TRUE, error |-> "NameError"]

\* What a process wrote is a list of lines, a line a list of tokens; <<>> is
\* an empty line.  str.strip(): the empty lines at both ends are dropped.
RECURSIVE lstrip(_)
lstrip(text) ==
    IF text /= <<>> /\ Head(text) = <<>> THEN lstrip(Tail(text)) ELSE text

RECURSIVE rstrip(_)
rstrip(text) ==
    IF text /= <<>> /\ text[Len(text)] = <<>>
    THEN rstrip(SubSeq(text, 1, Len(text) - 1)) ELSE text

strip(text) == rstrip(lstrip(text))

\* the timeouts the callers pass: the default and the one of the address query
DefaultTimeout == 300
IpTimeout == 60

\* the process a command becomes: the seconds it runs, its exit code and
\* what it writes.  How the wait of line 142 ends for it:
Outcome_exit_first(proc, timeout) ==
    IF proc.returncode /= 0 THEN "failed"
    ELSE IF proc.duration > timeout THEN "timeout" ELSE "ok"

Outcome(proc, timeout) ==
    IF proc.duration > timeout THEN "timeout"
    ELSE IF proc.returncode /= 0 THEN "failed" ELSE "ok"

\* line 147 without the "or" of the empty stderr
error_msg_bare(command, stdout_str, stderr_str) ==
    stderr_str
        \o << <<". Command:", command, ". STDOUT:">> >>
        \o stdout_str

\* line 147: f"{stderr_str or 'Unknown error (empty stderr)'}. Command:
\* {command}. STDOUT: {stdout_str}"
EmptyStderr == << <<"Unknown error (empty stderr)">> >>
error_msg(command, stdout_str, stderr_str) ==
    (IF stderr_str /= <<>> THEN stderr_str ELSE EmptyStderr)
        \o << <<". Command:", command, ". STDOUT:">> >>
        \o stdout_str

\* line 153
TimeoutMsg(timeout) ==
    << <<"Command timed out after">>, <<timeout>>,
       <<"seconds - container may be unresponsive. Try manual stop or increase timeout.">> >>

\* lines 138-156: execute_incus for a command, a timeout and the process the
\* command becomes; the exception carries its message
execute_incus_on(command, timeout, proc) ==
    LET o == Outcome(proc, timeout)
        stdout_str == strip(proc.stdout)
        stderr_str == strip(proc.stderr)
        r == execute_incus(o, stdout_str)
    IN  IF ~r.raised THEN r
        ELSE [raised |-> TRUE, error |-> r.error,
              message |-> IF o = "timeout" THEN TimeoutMsg(timeout)
                          ELSE error_msg(command, stdout_str, stderr_str)]

\* the text of "ip addr show eth0": a list of lines, a line a list of tokens.
\* re.search(r'inet (\S+)/', line): the token after the family keyword
AddrOf(line, family) ==
    IF \E i \in 1..(Len(line) - 1) : line[i] = family
    THEN LET i == CHOOSE j \in 1..(Len(line) - 1) :
                    /\ line[j] = family
                    /\ \A k \in 1..(j - 1) : line[k] /= family
         IN  line[i + 1]
    ELSE None

RECURSIVE FirstAddr(_, _)
FirstAddr(lines, family) ==
    IF lines = <<>> THEN "Not assigned"
    ELSE IF AddrOf(Head(lines), family) /= None
         THEN AddrOf(Head(lines), family)
         ELSE FirstAddr(Tail(lines), family)

\* get_container_ips: the pair of addresses for a runner result.  The True
\* that execute_incus returns for an empty stdout has no split(): the
\* AttributeError lands in the same except as a runner error.
get_container_ips(r) ==
    IF r.raised THEN <<"Error", "Error">>
    ELSE IF r.value.type = "bool" THEN <<"Error", "Error">>
    ELSE <<FirstAddr(r.value.text, "inet"), FirstAddr(r.value.text, "inet6")>>

\* set_static_ip: the commands it would run, in order
StaticIpCommands(container_name, ipv4, ipv6) ==
    (IF ipv4 /= None THEN <<DeviceSetCmd(container_name, "ipv4.address", ipv4)>> ELSE <<>>)
    \o (IF ipv6 /= None THEN <<DeviceSetCmd(container_name, "ipv6.address", ipv6)>> ELSE <<>>)
    \o <<RestartCmd(container_name)>>

-----------------------------------------------------------------------------
(* Initial state *)

\* a record as slash_create writes it
CreatedRecord(container_name, ram, cpu, created_at, ips) ==
    [container_name |-> container_name, ram |-> GBText(ram), cpu |-> Str(cpu),
     storage |-> "10GB", status |-> "running", created_at |-> created_at,
     ipv4 |-> ips[1], ipv6 |-> ips[2], shared_with |-> <<>>]

\* the inventories the program can find on disk when it starts: none (first
\* start), or the one left by an earlier run that created two VPS for u1,
\* both still running in the runtime
EarlierIps == <<"10.0.0.5", "Not assigned">>
EarlierVpsData ==
    DictSet(EmptyDict, "u1",
            <<CreatedRecord(ContainerName("u1", 1), 1, 1, 0, EarlierIps),
              CreatedRecord(ContainerName("u1", 2), 1, 1, 0, EarlierIps)>>)
EarlierRuntime ==
    [n \in {ContainerName("u1", 1), ContainerName("u1", 2)} |-> "running"]

\* the output of "top -bn1": a list of lines, a line a list of tokens; the
\* summary line reads "%Cpu(s): <us> us, <idle> id, <wa> wa"
Comma == Word(",")
CpuLine(us, idle) ==
    <<Word("%Cpu(s):"), Number(us), Word("us"), Comma,
      Number(idle), Word("id"), Comma, Number(0), Word("wa")>>
TasksLine == <<Word("Tasks:"), Number(3), Word("total")>>

\* line 214: subprocess.run(['top', '-bn1']) on a host that is busy to
\* usage percent, and on a host where the command cannot be run
TopRun(usage) ==
    [raised |-> FALSE, stdout |-> <<TasksLine, CpuLine(usage, 100 - usage)>>]
TopRaises == [raised |-> TRUE, error |-> "FileNotFoundError"]

\* the host as the handlers' runs find it: busy to 95 percent
BusyHost == [runs |-> <<TopRun(95)>>, read |-> 0]

\* the hosts the monitor is followed on: usage 50, 95, 95, 40 at successive
\* samples, and a host where top cannot be run at the first sample
SampledHost ==
    [runs |-> <<TopRun(50), TopRun(95), TopRun(95), TopRun(40)>>, read |-> 0]
FailingHost == [runs |-> <<TopRaises, TopRun(95)>>, read |-> 0]

NoResp == [op |-> "none", kind |-> "none"]
MonitorStart ==
    [pc |-> "loop", cpu_usage |-> 0, log |-> "none", stops |-> 0]

Started ==
    /\ user_data = LoadedUserData
    /\ admin_data = LoadedAdminData
    /\ \/ vps_data = LoadedVpsData /\ incus = EmptyDict
       \/ vps_data = EarlierVpsData /\ incus = EarlierRuntime
    /\ disk = Documents(user_data, vps_data, admin_data)
    /\ cpu_monitor_active = TRUE
    /\ tasks = EmptyBag
    /\ monitor = MonitorStart
    /\ views = {}
    /\ issued = <<>>
    /\ resp = NoResp
    /\ nops = 0

Init == Started /\ top = BusyHost

InitMonitor == Started /\ top \in {SampledHost, FailingHost}

\* the inventory of an earlier run in which u1 had shared the first VPS with
\* u2 (slash_share_user, lines 666-669, saved at line 670)
SharedVpsData == [EarlierVpsData EXCEPT !["u1"][1].shared_with = <<"u2">>]

InitShared ==
    /\ user_data = LoadedUserData
    /\ admin_data = LoadedAdminData
    /\ vps_data = SharedVpsData
    /\ incus = EarlierRuntime
    /\ disk = Documents(user_data, vps_data, admin_data)
    /\ cpu_monitor_active = TRUE
    /\ tasks = EmptyBag
    /\ monitor = MonitorStart
    /\ views = {}
    /\ issued = <<>>
    /\ resp = NoResp
    /\ nops = 0
    /\ top = BusyHost

-----------------------------------------------------------------------------
(* Handlers: bookkeeping shared by the actions *)

TaskCount == BagCardinality(tasks)
Spawn(t) == tasks' = tasks (+) SetToBag({t})
Finish(t) == tasks' = tasks (-) SetToBag({t})
Move(t, t2) == tasks' = (tasks (-) SetToBag({t})) (+) SetToBag({t2})
Waiting(t, op, pc) == BagIn(t, tasks) /\ t.op = op /\ t.pc = pc

\* room for one more handler within the bounds of the model
Room == nops < MaxOps /\ TaskCount < MaxTasks

Store == <<user_data, vps_data, admin_data>>

\* a handler that answers at once and touches nothing
Reply(r) ==
    /\ resp' = r
    /\ issued' = <<>>
    /\ UNCHANGED <<user_data, vps_data, admin_data, cpu_monitor_active, disk,
                   incus, tasks, monitor, views, top, nops>>

-----------------------------------------------------------------------------
(* /create  (v2.py:289-342) *)

\* slash_create with the check of line 293 written "< 0": zero gets through
slash_create_accepts_zero(caller, user, ram, cpu, ipv4, ipv6) ==
    IF ram = 0 \/ cpu = 0
    THEN /\ Room
         /\ vps_data' = IF user \notin DOMAIN vps_data
                         THEN DictSet(vps_data, user, <<>>) ELSE vps_data
         /\ Spawn([op |-> "create", pc |-> "launch", user_id |-> user,
                   vps_count |-> Len(vps_data'[user]) + 1,
                   container_name |-> ContainerName(user, Len(vps_data'[user]) + 1),
                   ram |-> ram, cpu |-> cpu, ram_mb |-> ram * 1024,
                   launch |-> LaunchCmd(ContainerName(user, Len(vps_data'[user]) + 1),
                                        ram * 1024, Str(cpu)),
                   ipv4 |-> ipv4, ipv6 |-> ipv6,
                       listed |-> user \in DOMAIN vps_data])
         /\ issued' = <<LaunchCmd(ContainerName(user, Len(vps_data'[user]) + 1),
                                  ram * 1024, Str(cpu))>>
         /\ resp' = [op |-> "create", kind |-> "Creating", user_id |-> user]
         /\ nops' = nops + 1
         /\ UNCHANGED <<user_data, admin_data, cpu_monitor_active, disk,
                        incus, monitor, views, top>>
    ELSE Reply([op |-> "create", kind |-> "InvalidSpecs"])

\* lines 296-301: the owner's entry, the derived name, the launch command
slash_create(caller, user, ram, cpu, ipv4, ipv6) ==
    IF ~IsAdminCaller(caller)
    THEN Reply([op |-> "create", kind |-> "AccessDenied"])
    ELSE IF ram <= 0 \/ cpu <= 0
    THEN Reply([op |-> "create", kind |-> "InvalidSpecs"])
    ELSE LET user_id == user
             vd == IF user_id \notin DOMAIN vps_data
                   THEN DictSet(vps_data, user_id, <<>>) ELSE vps_data
             vps_count == Len(vd[user_id]) + 1
             container_name == ContainerName(user_id, vps_count)
             ram_mb == ram * 1024
         IN  /\ Room
             /\ vps_data' = vd
             /\ Spawn([op |-> "create", pc |-> "launch", user_id |-> user_id,
                       vps_count |-> vps_count, container_name |-> container_name,
                       ram |-> ram, cpu |-> cpu, ram_mb |-> ram_mb,
                       launch |-> LaunchCmd(container_name, ram_mb, Str(cpu)),
                       ipv4 |-> ipv4, ipv6 |-> ipv6,
                       listed |-> user \in DOMAIN vps_data])
             /\ issued' = <<LaunchCmd(container_name, ram_mb, Str(cpu))>>
             /\ resp' = [op |-> "create", kind |-> "Creating", user_id |-> user_id]
             /\ nops' = nops + 1
             /\ UNCHANGED <<user_data, admin_data, cpu_monitor_active, disk,
                            incus, monitor, views, top>>

\* (listed, in the task of a create, remembers whether the owner had an entry
\* in vps_data when the handler was entered)

\* lines 303-304 and 735-736: the launch ends; on exit 0 the handler sleeps
\* through the settle delay, otherwise the except of line 341 / 774 reports
Launched(t, o) ==
    LET c == t.launch
        r == execute_incus(o, NoOutput)
    IN  /\ Possible(c, o, incus)
        /\ incus' = After(c, o, incus)
        /\ issued' = <<>>
        /\ IF r.raised
           THEN /\ Finish(t)
                /\ resp' = [op |-> t.op, kind |-> "Failed", error |-> r.error,
                            user_id |-> t.user_id,
                            container_name |-> t.container_name]
           ELSE /\ Move(t, [t EXCEPT !.pc = "settle"])
                /\ resp' = [op |-> t.op, kind |-> "Launched",
                            user_id |-> t.user_id,
                            container_name |-> t.container_name]
        /\ UNCHANGED <<user_data, vps_data, admin_data, cpu_monitor_active,
                       disk, monitor, views, top, nops>>

slash_create_launched(t, o) == Waiting(t, "create", "launch") /\ Launched(t, o)

\* the addresses with the requested static ones kept when applying them failed
Addresses_static_kept(t, o1, out1, failAt, o2, out2) ==
    LET q == IpAddrCmd(t.container_name)
        dynamic == get_container_ips(execute_incus(o1, out1))
        wanted == t.ipv4 /= None \/ t.ipv6 /= None
        cmds == StaticIpCommands(t.container_name, t.ipv4, t.ipv6)
        success == failAt = 0
        ran == IF success THEN cmds ELSE SubSeq(cmds, 1, failAt)
    IN  IF ~wanted
        THEN [ips |-> dynamic, issued |-> <<q>>, warning |-> FALSE]
        ELSE IF success
        THEN [ips |-> get_container_ips(execute_incus(o2, out2)),
              issued |-> <<q>> \o ran \o <<q>>, warning |-> FALSE]
        ELSE [ips |-> <<t.ipv4, t.ipv6>>, issued |-> <<q>> \o ran,
              warning |-> TRUE]

\* lines 305-315 and 737-747: the addresses the record will carry, the
\* commands run to get them and whether the static-IP warning is sent.
\* o1/out1 and o2/out2 are the ends of the two address queries, failAt the
\* first command of set_static_ip that fails (0: none).
Addresses(t, o1, out1, failAt, o2, out2) ==
    LET q == IpAddrCmd(t.container_name)
        dynamic == get_container_ips(execute_incus(o1, out1))
        wanted == t.ipv4 /= None \/ t.ipv6 /= None
        cmds == StaticIpCommands(t.container_name, t.ipv4, t.ipv6)
        success == failAt = 0
        ran == IF success THEN cmds ELSE SubSeq(cmds, 1, failAt)
    IN  IF ~wanted
        THEN [ips |-> dynamic, issued |-> <<q>>, warning |-> FALSE]
        ELSE IF success
        THEN [ips |-> get_container_ips(execute_incus(o2, out2)),
              issued |-> <<q>> \o ran \o <<q>>, warning |-> FALSE]
        ELSE [ips |-> dynamic, issued |-> <<q>> \o ran, warning |-> TRUE]

\* what the runtime allows of those inputs
AddressesPossible(t, o1, failAt, o2) ==
    LET q == IpAddrCmd(t.container_name)
        cmds == StaticIpCommands(t.container_name, t.ipv4, t.ipv6)
        wanted == t.ipv4 /= None \/ t.ipv6 /= None
    IN  /\ Possible(q, o1, incus)
        /\ failAt \in 0..Len(cmds)
        /\ \A i \in 1..(failAt - 1) : CanSucceed(cmds[i], incus)
        /\ ~wanted => failAt = 0
        /\ wanted /\ failAt = 0 =>
              /\ \A i \in 1..Len(cmds) : CanSucceed(cmds[i], incus)
              /\ Possible(q, o2, incus)

\* lines 316-342 and 748-775: the record is appended to the owner's list and
\* the store saved; a missing owner key raises KeyError into the except
AppendRecord(t, vps_info, a) ==
    /\ issued' = a.issued
    /\ Finish(t)
    /\ IF t.user_id \notin DOMAIN vps_data
       THEN /\ resp' = [op |-> t.op, kind |-> "Failed", error |-> "KeyError",
                        user_id |-> t.user_id,
                        container_name |-> t.container_name]
            /\ UNCHANGED <<vps_data, disk>>
       ELSE /\ vps_data' = [vps_data EXCEPT
                               ![t.user_id] = Append(@, vps_info)]
            /\ save_data(user_data, vps_data', admin_data)
            /\ resp' = [op |-> t.op, kind |-> "Created", user_id |-> t.user_id,
                        vps_count |-> t.vps_count,
                        container_name |-> t.container_name,
                        warning |-> a.warning, first |-> a.first,
                        failAt |-> a.failAt]
    /\ UNCHANGED <<user_data, admin_data, cpu_monitor_active, incus, monitor,
                   views, top,
                   nops>>

slash_create_append(t, o1, out1, failAt, o2, out2) ==
    /\ Waiting(t, "create", "settle")
    /\ AddressesPossible(t, o1, failAt, o2)
    /\ LET a == Addresses(t, o1, out1, failAt, o2, out2)
       IN  AppendRecord(t, CreatedRecord(t.container_name, t.ram, t.cpu, Now, a.ips),
                        a @@ [first |-> <<o1, out1>>, failAt |-> failAt])

-----------------------------------------------------------------------------
(* /buywc  (v2.py:698-775) *)

Plans == {"Starter", "Basic", "Standard", "Pro"}
Processors == {"Intel", "AMD"}

\* lines 702-707
prices ==
    [plan \in Plans |->
        CASE plan = "Starter" -> [Intel |-> 42, AMD |-> 83]
          [] plan = "Basic" -> [Intel |-> 96, AMD |-> 164]
          [] plan = "Standard" -> [Intel |-> 192, AMD |-> 320]
          [] plan = "Pro" -> [Intel |-> 220, AMD |-> 340]]

\* lines 708-713
plans ==
    [plan \in Plans |->
        CASE plan = "Starter" -> [ram |-> GBText(4), cpu |-> Str(1), storage |-> "10GB"]
          [] plan = "Basic" -> [ram |-> GBText(8), cpu |-> Str(1), storage |-> "10GB"]
          [] plan = "Standard" -> [ram |-> GBText(12), cpu |-> Str(2), storage |-> "10GB"]
          [] plan = "Pro" -> [ram |-> GBText(16), cpu |-> Str(2), storage |-> "10GB"]]

\* a record as slash_buywc writes it
PurchasedRecord(t, created_at, ips) ==
    [plan |-> t.plan, container_name |-> t.container_name, ram |-> t.ram_str,
     cpu |-> t.cpu_str, storage |-> plans[t.plan].storage, status |-> "running",
     created_at |-> created_at, processor |-> t.processor,
     ipv4 |-> ips[1], ipv6 |-> ips[2], shared_with |-> <<>>]

\* lines 701-733: the checks, the charge, the derived name, the launch command
slash_buywc(caller, plan, processor, ipv4, ipv6) ==
    LET user_id == caller
        ud == IF user_id \notin DOMAIN user_data
              THEN DictSet(user_data, user_id, [credits |-> 0]) ELSE user_data
    IN  IF plan \notin DOMAIN prices
        THEN Reply([op |-> "buywc", kind |-> "InvalidPlan"])
        ELSE IF processor \notin Processors
        THEN Reply([op |-> "buywc", kind |-> "InvalidProcessor"])
        ELSE IF ud[user_id].credits < prices[plan][processor]
        THEN /\ user_data' = ud
             /\ resp' = [op |-> "buywc", kind |-> "InsufficientCredits"]
             /\ issued' = <<>>
             /\ UNCHANGED <<vps_data, admin_data, cpu_monitor_active, disk,
                            incus, tasks, monitor, views, top, nops>>
        ELSE LET cost == prices[plan][processor]
                 vd == IF user_id \notin DOMAIN vps_data
                       THEN DictSet(vps_data, user_id, <<>>) ELSE vps_data
                 vps_count == Len(vd[user_id]) + 1
                 container_name == ContainerName(user_id, vps_count)
                 ram_str == plans[plan].ram
                 cpu_str == plans[plan].cpu
                 ram_gb == ParseGB(ram_str)
                 ram_mb == ram_gb * 1024
             IN  /\ Room
                 /\ user_data' = [ud EXCEPT ![user_id].credits = @ - cost]
                 /\ vps_data' = vd
                 /\ Spawn([op |-> "buywc", pc |-> "launch", user_id |-> user_id,
                           vps_count |-> vps_count,
                           container_name |-> container_name,
                           plan |-> plan, processor |-> processor,
                           ram_str |-> ram_str, cpu_str |-> cpu_str,
                           ram_mb |-> ram_mb, cost |-> cost,
                           launch |-> LaunchCmd(container_name, ram_mb, cpu_str),
                           ipv4 |-> ipv4, ipv6 |-> ipv6])
                 /\ issued' = <<LaunchCmd(container_name, ram_mb, cpu_str)>>
                 /\ resp' = [op |-> "buywc", kind |-> "Creating",
                             user_id |-> user_id]
                 /\ nops' = nops + 1
                 /\ UNCHANGED <<admin_data, cpu_monitor_active, disk, incus,
                                monitor, views, top>>

slash_buywc_launched(t, o) == Waiting(t, "buywc", "launch") /\ Launched(t, o)

slash_buywc_append(t, o1, out1, failAt, o2, out2) ==
    /\ Waiting(t, "buywc", "settle")
    /\ AddressesPossible(t, o1, failAt, o2)
    /\ LET a == Addresses(t, o1, out1, failAt, o2, out2)
       IN  AppendRecord(t, PurchasedRecord(t, Now, a.ips),
                        a @@ [first |-> <<o1, out1>>, failAt |-> failAt])

-----------------------------------------------------------------------------
(* /adminc  (v2.py:840-851) *)

slash_admin_credits(caller, user, amount) ==
    IF ~IsAdminCaller(caller)
    THEN Reply([op |-> "adminc", kind |-> "AccessDenied"])
    ELSE IF amount <= 0
    THEN Reply([op |-> "adminc", kind |-> "InvalidAmount"])
    ELSE LET user_id == user
             ud == IF user_id \notin DOMAIN user_data
                   THEN DictSet(user_data, user_id, [credits |-> 0])
                   ELSE user_data
         IN  /\ nops < MaxOps
             /\ user_data' = [ud EXCEPT ![user_id].credits = @ + amount]
             /\ save_data(user_data', vps_data, admin_data)
             /\ resp' = [op |-> "adminc", kind |-> "CreditsAdded",
                         user_id |-> user_id]
             /\ issued' = <<>>
             /\ nops' = nops + 1
             /\ UNCHANGED <<vps_data, admin_data, cpu_monitor_active, incus,
                            tasks, monitor, views, top>>

-----------------------------------------------------------------------------
(* /adminrc and /credits  (v2.py:853-878, 939-947) *)

\* a text argument is the list of its characters
Digits == <<"0", "1", "2", "3", "4", "5", "6", "7", "8", "9">>
IsDigit(ch) == \E d \in 1..10 : Digits[d] = ch
DigitOf(ch) == (CHOOSE d \in 1..10 : Digits[d] = ch) - 1

\* str.lower() on the letters the inputs use
lower(text) ==
    [i \in 1..Len(text) |->
        CASE text[i] = "A" -> "a"
          [] text[i] = "L" -> "l"
          [] OTHER -> text[i]]

RECURSIVE NatOf(_)
NatOf(text) ==
    IF text = <<>> THEN 0
    ELSE 10 * NatOf(SubSeq(text, 1, Len(text) - 1)) + DigitOf(text[Len(text)])

\* int(text): an optional sign and digits; any other text raises ValueError
IsIntText(text) ==
    LET digits == IF text /= <<>> /\ text[1] \in {"-", "+"} THEN Tail(text)
                  ELSE text
    IN  digits /= <<>> /\ \A i \in 1..Len(digits) : IsDigit(digits[i])

IntOf(text) ==
    IF text[1] = "-" THEN 0 - NatOf(Tail(text))
    ELSE IF text[1] = "+" THEN NatOf(Tail(text))
    ELSE NatOf(text)

\* the amount taken as asked, whatever the balance
Removable_unclamped(amount, current_credits) == amount

\* line 870: no more than the balance is taken
Removable(amount, current_credits) ==
    IF amount > current_credits THEN current_credits ELSE amount

\* lines 856-878.  The default entry of line 858 stays in memory, unsaved,
\* when the handler returns at an invalid amount.
slash_admin_remove_credits(caller, user, amount_or_all) ==
    LET user_id == user
        ud == IF user_id \notin DOMAIN user_data
              THEN DictSet(user_data, user_id, [credits |-> 0]) ELSE user_data
        current_credits == ud[user_id].credits
        removed(n, all) ==
            /\ nops < MaxOps
            /\ user_data' = [ud EXCEPT ![user_id].credits =
                                 IF all THEN 0 ELSE @ - n]
            /\ save_data(user_data', vps_data, admin_data)
            /\ resp' = [op |-> "adminrc", kind |-> "CreditsRemoved",
                        user_id |-> user_id, removed |-> n,
                        asked |-> amount_or_all]
            /\ nops' = nops + 1
        invalid(error) ==
            /\ user_data' = ud
            /\ resp' = [op |-> "adminrc", kind |-> "InvalidAmount",
                        error |-> error, asked |-> amount_or_all]
            /\ UNCHANGED <<disk, nops>>
    IN  IF ~IsAdminCaller(caller)
        THEN Reply([op |-> "adminrc", kind |-> "AccessDenied"])
        ELSE /\ IF lower(amount_or_all) = <<"a", "l", "l">>
                THEN removed(current_credits, TRUE)
                ELSE IF ~IsIntText(amount_or_all) THEN invalid("ValueError")
                ELSE IF IntOf(amount_or_all) <= 0 THEN invalid("none")
                ELSE removed(Removable(IntOf(amount_or_all), current_credits),
                             FALSE)
             /\ issued' = <<>>
             /\ UNCHANGED <<vps_data, admin_data, cpu_monitor_active, incus,
                            tasks, monitor, views, top>>

\* lines 939-947: the balance is shown; a tenant without an entry gets the
\* default one, and the store is saved then
slash_credits(caller) ==
    LET user_id == caller
        ud == IF user_id \notin DOMAIN user_data
              THEN DictSet(user_data, user_id, [credits |-> 0]) ELSE user_data
    IN  /\ user_data' = ud
        /\ IF user_id \notin DOMAIN user_data
           THEN save_data(user_data', vps_data, admin_data)
           ELSE UNCHANGED disk
        /\ resp' = [op |-> "credits", kind |-> "Balance", user_id |-> user_id,
                    credits |-> ud[user_id].credits]
        /\ issued' = <<>>
        /\ UNCHANGED <<vps_data, admin_data, cpu_monitor_active, incus,
                       tasks, monitor, views, top, nops>>

-----------------------------------------------------------------------------
(* /delete_vps  (v2.py:795-823) *)

\* DeleteRecord without lines 809-810: the emptied list stays under its key
DeleteRecord_keeps_key(vd, user_id, vps_number) ==
    [vd EXCEPT ![user_id] = RemoveAt(vd[user_id], vps_number)]

\* a ManageView holds the owner's list object (line 349); the list emptied by
\* line 808 and dropped from vps_data by line 810 stays with the view, empty
ListGone(vw, vd, user_id) ==
    IF user_id \in DOMAIN vd THEN vw
    ELSE {IF v.kind = "ManageView" /\ v.owner_id = user_id
          THEN [v EXCEPT !.detached = TRUE] ELSE v : v \in vw}

\* lines 808-810: del vps_data[user_id][vps_number - 1], and the owner's key
\* with it when the list is left empty
DeleteRecord(vd, user_id, vps_number) ==
    LET rest == RemoveAt(vd[user_id], vps_number)
    IN  IF rest = <<>> THEN DictDel(vd, user_id)
        ELSE [vd EXCEPT ![user_id] = rest]

\* slash_delete_vps without the range check of line 800: the name is derived
\* from the number when no record answers to it
slash_delete_vps_unchecked(caller, user, vps_number) ==
    /\ Room
    /\ Spawn([op |-> "delete", pc |-> "delete", user_id |-> user,
              vps_number |-> vps_number,
              container_name |-> ContainerName(user, vps_number)])
    /\ issued' = <<DeleteCmd(ContainerName(user, vps_number))>>
    /\ resp' = [op |-> "delete", kind |-> "Deleting", user_id |-> user,
                vps_number |-> vps_number]
    /\ nops' = nops + 1
    /\ UNCHANGED <<user_data, vps_data, admin_data, cpu_monitor_active, disk,
                   incus, monitor, views, top>>

\* lines 799-805: the target is resolved by number and its name kept
slash_delete_vps(caller, user, vps_number) ==
    LET user_id == user
    IN  IF ~IsAdminCaller(caller)
        THEN Reply([op |-> "delete", kind |-> "AccessDenied"])
        ELSE IF \/ user_id \notin DOMAIN vps_data
                \/ vps_number < 1
                \/ vps_number > Len(vps_data[user_id])
        THEN Reply([op |-> "delete", kind |-> "InvalidVPS"])
        ELSE LET vps == vps_data[user_id][vps_number]
                 container_name == vps.container_name
             IN  /\ Room
                 /\ Spawn([op |-> "delete", pc |-> "delete",
                           user_id |-> user_id, vps_number |-> vps_number,
                           container_name |-> container_name])
                 /\ issued' = <<DeleteCmd(container_name)>>
                 /\ resp' = [op |-> "delete", kind |-> "Deleting",
                             user_id |-> user_id, vps_number |-> vps_number]
                 /\ nops' = nops + 1
                 /\ UNCHANGED <<user_data, vps_data, admin_data,
                                cpu_monitor_active, disk, incus, monitor, views, top>>

\* lines 807-823: the force-delete ends; on exit 0 the entry at the number
\* taken on entry is removed.  A list that has become shorter, or an owner key
\* that has gone, raises IndexError / KeyError into the except of line 822.
slash_delete_vps_deleted(t, o) ==
    LET c == DeleteCmd(t.container_name)
        r == execute_incus(o, NoOutput)
        failed(error) ==
            /\ resp' = [op |-> "delete", kind |-> "Failed", error |-> error,
                        user_id |-> t.user_id, vps_number |-> t.vps_number,
                        container_name |-> t.container_name]
            /\ UNCHANGED <<vps_data, disk, views, top>>
    IN  /\ Waiting(t, "delete", "delete")
        /\ Possible(c, o, incus)
        /\ incus' = After(c, o, incus)
        /\ issued' = <<>>
        /\ Finish(t)
        /\ IF r.raised THEN failed(r.error)
           ELSE IF t.user_id \notin DOMAIN vps_data THEN failed("KeyError")
           ELSE IF t.vps_number > Len(vps_data[t.user_id]) THEN failed("IndexError")
           ELSE /\ vps_data' = DeleteRecord(vps_data, t.user_id, t.vps_number)
                /\ views' = ListGone(views, vps_data', t.user_id)
                /\ save_data(user_data, vps_data', admin_data)
                /\ resp' = [op |-> "delete", kind |-> "Deleted",
                            user_id |-> t.user_id, vps_number |-> t.vps_number,
                            container_name |-> t.container_name]
        /\ UNCHANGED <<user_data, admin_data, cpu_monitor_active, monitor, top, nops>>

-----------------------------------------------------------------------------
(* .manage and the ManageView: start, stop, reinstall, SSH *)

\* selected_index before a VPS is chosen (line 350)
NoIndex == -1

\* lines 346-371: the view over the owner's list; one VPS is selected at once.
\* A shared view is built over the list [vps] of the one record that was
\* checked (line 653): vps names that record.
ManageView(user_id, vps_list, is_shared, owner_id, is_admin) ==
    [kind |-> "ManageView", user_id |-> user_id, owner_id |-> owner_id,
     is_shared |-> is_shared, is_admin |-> is_admin,
     selected_index |-> IF Len(vps_list) > 1 THEN NoIndex ELSE 0,
     vps |-> IF is_shared THEN vps_list[1].container_name ELSE <<>>,
     detached |-> FALSE]

\* self.vps_list as the view sees it now
ViewList(v) == IF v.detached THEN <<>> ELSE vps_data[v.owner_id]

\* the view is posted; nothing else changes
Post(v, r) ==
    /\ Room
    /\ views' = views \cup {v}
    /\ resp' = r
    /\ issued' = <<>>
    /\ nops' = nops + 1
    /\ UNCHANGED <<user_data, vps_data, admin_data, cpu_monitor_active, disk,
                   incus, tasks, monitor, top>>

\* lines 571-600: user = None manages the caller's own VPS
manage_vps(caller, user) ==
    LET user_id == IF user /= None THEN user ELSE caller
        vps_list == IF user_id \in DOMAIN vps_data THEN vps_data[user_id]
                    ELSE <<>>
    IN  IF user /= None /\ ~IsAdminCaller(caller)
        THEN Reply([op |-> "manage", kind |-> "AccessDenied"])
        ELSE IF vps_list = <<>>
        THEN Reply([op |-> "manage", kind |-> "NoVPS"])
        ELSE IF user /= None
        THEN Post(ManageView(caller, vps_list, FALSE, user_id, TRUE),
                  [op |-> "manage", kind |-> "Managing"])
        ELSE Post(ManageView(user_id, vps_list, FALSE, user_id, FALSE),
                  [op |-> "manage", kind |-> "Managing"])

ManageViews == {v \in views : v.kind = "ManageView"}

\* lines 422-430: the dropdown exists when the list had several entries
select_vps(v, caller, value) ==
    /\ v \in ManageViews
    /\ v.selected_index = NoIndex
    /\ IF caller /= v.user_id /\ ~v.is_admin
       THEN Reply([op |-> "select", kind |-> "AccessDenied"])
       ELSE /\ nops < MaxOps
            /\ views' = (views \ {v}) \cup {[v EXCEPT !.selected_index = value]}
            /\ resp' = [op |-> "select", kind |-> "Selected"]
            /\ issued' = <<>>
            /\ nops' = nops + 1
            /\ UNCHANGED <<user_data, vps_data, admin_data, cpu_monitor_active,
                           disk, incus, tasks, monitor, top>>

\* vps["status"] = status, on the record the handler resolved on entry
SetStatus(vd, owner_id, index, status) ==
    [vd EXCEPT ![owner_id][index + 1].status = status]

\* start and stop with the status written before the runner is called
StartStop_status_first(v, caller, action, container_name, o) ==
    LET status == IF action = "start" THEN "running" ELSE "stopped"
    IN  /\ vps_data' = SetStatus(vps_data, v.owner_id, v.selected_index, status)
        /\ resp' = [op |-> action, kind |-> "Failed", error |-> "NameError",
                    container_name |-> container_name, runtime |-> o,
                    user |-> caller, view |-> v]
        /\ issued' = <<>>
        /\ nops < MaxOps
        /\ nops' = nops + 1
        /\ UNCHANGED <<user_data, admin_data, cpu_monitor_active, disk, incus,
                       tasks, monitor, views, top>>

\* lines 495-515: the command goes to execute_lxc, a name the module never
\* defines; the call raises NameError into the except of lines 503 / 514.
\* o is the outcome the runtime has for the command.
StartStop(v, caller, action, container_name, o) ==
    LET c == IF action = "start" THEN StartCmd(container_name)
             ELSE StopCmd(container_name)
        status == IF action = "start" THEN "running" ELSE "stopped"
        r == execute_lxc(o, NoOutput)
    IN  /\ nops < MaxOps
        /\ Possible(c, o, incus)
        /\ nops' = nops + 1
        /\ IF r.raised
           THEN /\ resp' = [op |-> action, kind |-> "Failed", error |-> r.error,
                            container_name |-> container_name, runtime |-> o,
                    user |-> caller, view |-> v]
                /\ issued' = <<>>
                /\ UNCHANGED <<vps_data, disk, incus>>
           ELSE /\ incus' = After(c, o, incus)
                /\ vps_data' = SetStatus(vps_data, v.owner_id, v.selected_index,
                                         status)
                /\ save_data(user_data, vps_data', admin_data)
                /\ resp' = [op |-> action, kind |-> "Done",
                            container_name |-> container_name, runtime |-> o,
                    user |-> caller, view |-> v]
                /\ issued' = <<c>>
        /\ UNCHANGED <<user_data, admin_data, cpu_monitor_active, tasks,
                       monitor, views, top>>

WhichCmd(container_name) == [cmd |-> "exec which tmate", name |-> container_name]

\* lines 405-420: the buttons the view shows once a VPS is selected
add_action_buttons(v) ==
    (IF ~v.is_shared /\ ~v.is_admin THEN {"reinstall"} ELSE {})
        \cup {"start", "stop", "tmate"}

\* the check of line 445 without the admin view
ReinstallRefused_shared_only(v) == v.is_shared

\* line 445: reinstall is refused on a shared view and on an admin view
ReinstallRefused(v) == v.is_shared \/ v.is_admin

\* lines 432-569: the buttons of the view.  The record is resolved on entry
\* (lines 437-440); an index the list no longer has, or an owner key that
\* has gone, ends the handler with the exception.
action_callback(v, caller, action, o) ==
    /\ v \in ManageViews
    /\ v.selected_index /= NoIndex
    /\ LET vps_list == IF v.is_shared
                       THEN IF v.owner_id \in DOMAIN vps_data
                            THEN vps_data[v.owner_id] ELSE <<>>
                       ELSE ViewList(v)
       IN  IF caller /= v.user_id /\ ~v.is_admin
           THEN Reply([op |-> action, kind |-> "AccessDenied",
                       user |-> caller, view |-> v])
           ELSE IF v.selected_index + 1 > Len(vps_list)
           THEN Reply([op |-> action, kind |-> "Raised",
                       user |-> caller, view |-> v])
           ELSE LET vps == vps_list[v.selected_index + 1]
                    container_name == vps.container_name
                IN  CASE action = "reinstall" ->
                           IF ReinstallRefused(v)
                           THEN Reply([op |-> action, kind |-> "OwnerOnly",
                                       user |-> caller, view |-> v])
                           ELSE Post([kind |-> "ConfirmReinstall",
                                      container_name |-> container_name,
                                      ram |-> vps.ram, cpu |-> vps.cpu,
                                      owner_id |-> v.owner_id,
                                      selected_index |-> v.selected_index],
                                     [op |-> action, kind |-> "Confirm",
                                      user |-> caller, view |-> v])
                      [] action \in {"start", "stop"} ->
                           StartStop(v, caller, action, container_name, o)
                      [] action = "tmate" ->
                           \* lines 517-569: "which tmate" is asked of the
                           \* container; with or without tmate the next call
                           \* is to execute_lxc
                           /\ nops < MaxOps
                           /\ resp' = [op |-> action, kind |-> "Failed",
                                       error |-> execute_lxc(o, NoOutput).error,
                                       container_name |-> container_name,
                                       user |-> caller, view |-> v]
                           /\ issued' = <<WhichCmd(container_name)>>
                           /\ nops' = nops + 1
                           /\ UNCHANGED <<user_data, vps_data, admin_data,
                                          cpu_monitor_active, disk, incus,
                                          tasks, monitor, views, top>>

\* lines 461-485: Confirm of the reinstall warning.  The force-delete and the
\* launch go to execute_lxc; what raises ends the handler in the except of
\* line 484.  o1 and o2 are the outcomes the runtime has for the two commands.
\* self.vps is the record the view resolved, reached through the owner's list
\* while the list still holds it.
reinstall_confirm(cv, o1, o2) ==
    /\ cv \in views
    /\ cv.kind = "ConfirmReinstall"
    /\ LET c1 == DeleteCmd(cv.container_name)
           ram_mb == ParseGB(cv.ram) * 1024
           c2 == LaunchCmd(cv.container_name, ram_mb, cv.cpu)
           r1 == execute_lxc(o1, NoOutput)
           r2 == execute_lxc(o2, NoOutput)
           deleted == After(c1, o1, incus)
           held == /\ cv.owner_id \in DOMAIN vps_data
                   /\ cv.selected_index + 1 <= Len(vps_data[cv.owner_id])
           failed(error, cmds, rt) ==
               /\ resp' = [op |-> "confirm_reinstall", kind |-> "Failed",
                           error |-> error,
                           container_name |-> cv.container_name,
                           owner_id |-> cv.owner_id,
                           index |-> cv.selected_index,
                           delete |-> o1, launch |-> o2]
               /\ issued' = cmds
               /\ incus' = rt
               /\ UNCHANGED <<vps_data, disk>>
       IN  /\ Possible(c1, o1, incus)
           /\ Possible(c2, o2, deleted)
           /\ IF r1.raised THEN failed(r1.error, <<>>, incus)
              ELSE IF r2.raised THEN failed(r2.error, <<c1>>, deleted)
              ELSE /\ incus' = After(c2, o2, deleted)
                   /\ vps_data' = IF held
                                  THEN [vps_data EXCEPT
                                         ![cv.owner_id][cv.selected_index + 1] =
                                            [@ EXCEPT !.status = "running",
                                                      !.created_at = Now]]
                                  ELSE vps_data
                   /\ save_data(user_data, vps_data', admin_data)
                   /\ resp' = [op |-> "confirm_reinstall", kind |-> "Done",
                               container_name |-> cv.container_name,
                               owner_id |-> cv.owner_id,
                               index |-> cv.selected_index,
                               delete |-> o1, launch |-> o2]
                   /\ issued' = <<c1, c2>>
    /\ UNCHANGED <<user_data, admin_data, cpu_monitor_active, tasks, monitor,
                   views, top, nops>>

-----------------------------------------------------------------------------
(* /share_user, /share_ruser, /manage_shared *)

\* list.remove(x): the first x leaves the list
RECURSIVE Remove(_, _)
Remove(s, x) ==
    IF s = <<>> THEN <<>>
    ELSE IF Head(s) = x THEN Tail(s)
    ELSE <<Head(s)>> \o Remove(Tail(s), x)

\* the check of lines 660, 681 and 646
NoSuchVps(user_id, vps_number) ==
    \/ user_id \notin DOMAIN vps_data
    \/ vps_number < 1
    \/ vps_number > Len(vps_data[user_id])

\* lines 656-675: the caller shares the caller's VPS with shared_user
slash_share_user(caller, shared_user, vps_number) ==
    IF NoSuchVps(caller, vps_number)
    THEN Reply([op |-> "share", kind |-> "InvalidVPS"])
    ELSE IF InList(shared_user, vps_data[caller][vps_number].shared_with)
    THEN Reply([op |-> "share", kind |-> "AlreadyShared"])
    ELSE /\ nops < MaxOps
         /\ vps_data' = [vps_data EXCEPT ![caller][vps_number].shared_with =
                                             Append(@, shared_user)]
         /\ save_data(user_data, vps_data', admin_data)
         /\ resp' = [op |-> "share", kind |-> "Shared", user |-> caller,
                     shared_user |-> shared_user, vps_number |-> vps_number]
         /\ issued' = <<>>
         /\ nops' = nops + 1
         /\ UNCHANGED <<user_data, admin_data, cpu_monitor_active, incus,
                        tasks, monitor, views, top>>

\* lines 677-696
slash_revoke_share(caller, shared_user, vps_number) ==
    IF NoSuchVps(caller, vps_number)
    THEN Reply([op |-> "revoke", kind |-> "InvalidVPS"])
    ELSE IF ~InList(shared_user, vps_data[caller][vps_number].shared_with)
    THEN Reply([op |-> "revoke", kind |-> "NotShared"])
    ELSE /\ nops < MaxOps
         /\ vps_data' = [vps_data EXCEPT ![caller][vps_number].shared_with =
                                             Remove(@, shared_user)]
         /\ save_data(user_data, vps_data', admin_data)
         /\ resp' = [op |-> "revoke", kind |-> "Revoked", user |-> caller,
                     shared_user |-> shared_user, vps_number |-> vps_number]
         /\ issued' = <<>>
         /\ nops' = nops + 1
         /\ UNCHANGED <<user_data, admin_data, cpu_monitor_active, incus,
                        tasks, monitor, views, top>>

\* lines 641-654: the view is built over the one-record list [vps]
slash_manage_shared(caller, owner, vps_number) ==
    IF NoSuchVps(owner, vps_number)
    THEN Reply([op |-> "manage_shared", kind |-> "InvalidVPS"])
    ELSE IF ~InList(caller, vps_data[owner][vps_number].shared_with)
    THEN Reply([op |-> "manage_shared", kind |-> "AccessDenied"])
    ELSE Post(ManageView(caller, <<vps_data[owner][vps_number]>>, TRUE, owner,
                         FALSE),
              [op |-> "manage_shared", kind |-> "Managing"])

-----------------------------------------------------------------------------
(* /admin_add and /admin_remove  (v2.py:880-912) *)

\* the is_main_admin() check (lines 116-119)
IsMainAdminCaller(caller) == caller = MAIN_ADMIN_ID

\* lines 883-893
slash_admin_add(caller, user) ==
    LET user_id == user
    IN  IF ~IsMainAdminCaller(caller)
        THEN Reply([op |-> "admin_add", kind |-> "AccessDenied"])
        ELSE IF user_id = MAIN_ADMIN_ID
        THEN Reply([op |-> "admin_add", kind |-> "AlreadyMainAdmin"])
        ELSE IF InList(user_id, admin_data.admins)
        THEN Reply([op |-> "admin_add", kind |-> "AlreadyAdmin"])
        ELSE /\ nops < MaxOps
             /\ admin_data' = [admin_data EXCEPT !.admins = Append(@, user_id)]
             /\ save_data(user_data, vps_data, admin_data')
             /\ resp' = [op |-> "admin_add", kind |-> "AdminAdded",
                         user_id |-> user_id]
             /\ issued' = <<>>
             /\ nops' = nops + 1
             /\ UNCHANGED <<user_data, vps_data, cpu_monitor_active, incus,
                            tasks, monitor, views, top>>

\* lines 903-912
slash_admin_remove(caller, user) ==
    LET user_id == user
    IN  IF ~IsMainAdminCaller(caller)
        THEN Reply([op |-> "admin_remove", kind |-> "AccessDenied"])
        ELSE IF user_id = MAIN_ADMIN_ID
        THEN Reply([op |-> "admin_remove", kind |-> "CannotRemove"])
        ELSE IF ~InList(user_id, admin_data.admins)
        THEN Reply([op |-> "admin_remove", kind |-> "NotAdmin"])
        ELSE /\ nops < MaxOps
             /\ admin_data' = [admin_data EXCEPT !.admins = Remove(@, user_id)]
             /\ save_data(user_data, vps_data, admin_data')
             /\ resp' = [op |-> "admin_remove", kind |-> "AdminRemoved",
                         user_id |-> user_id]
             /\ issued' = <<>>
             /\ nops' = nops + 1
             /\ UNCHANGED <<user_data, vps_data, cpu_monitor_active, incus,
                            tasks, monitor, views, top>>

-----------------------------------------------------------------------------
(* /restart_vps *)

\* lines 1051-1056
slash_restart_vps(caller, container_name) ==
    IF ~IsAdminCaller(caller)
    THEN Reply([op |-> "restart", kind |-> "AccessDenied"])
    ELSE /\ Room
         /\ Spawn([op |-> "restart", pc |-> "restart",
                   container_name |-> container_name])
         /\ issued' = <<RestartCmd(container_name)>>
         /\ resp' = [op |-> "restart", kind |-> "Restarting"]
         /\ nops' = nops + 1
         /\ UNCHANGED <<user_data, vps_data, admin_data, cpu_monitor_active,
                        disk, incus, monitor, views, top>>

\* lines 1058-1063: in every owner's list the first record of that name is
\* marked running (the break leaves the inner loop only)
RECURSIVE MarkFirst(_, _)
MarkFirst(vps_list, container_name) ==
    IF vps_list = <<>> THEN <<>>
    ELSE IF Head(vps_list).container_name = container_name
    THEN <<[Head(vps_list) EXCEPT !.status = "running"]>> \o Tail(vps_list)
    ELSE <<Head(vps_list)>> \o MarkFirst(Tail(vps_list), container_name)

Restarted(vd, container_name) ==
    [u \in DOMAIN vd |-> MarkFirst(vd[u], container_name)]

Named(vd, container_name) ==
    \E u \in DOMAIN vd : \E i \in 1..Len(vd[u]) :
        vd[u][i].container_name = container_name

\* lines 1057-1066: the restart ends; save_data runs when a record was found
slash_restart_vps_restarted(t, o) ==
    LET c == RestartCmd(t.container_name)
        r == execute_incus(o, NoOutput)
    IN  /\ Waiting(t, "restart", "restart")
        /\ Possible(c, o, incus)
        /\ incus' = After(c, o, incus)
        /\ issued' = <<>>
        /\ Finish(t)
        /\ IF r.raised
           THEN /\ resp' = [op |-> "restart", kind |-> "Failed",
                            error |-> r.error]
                /\ UNCHANGED <<vps_data, disk>>
           ELSE /\ vps_data' = Restarted(vps_data, t.container_name)
                /\ IF Named(vps_data, t.container_name)
                   THEN save_data(user_data, vps_data', admin_data)
                   ELSE UNCHANGED disk
                /\ resp' = [op |-> "restart", kind |-> "Restarted"]
        /\ UNCHANGED <<user_data, admin_data, cpu_monitor_active, monitor,
                       views, top, nops>>

-----------------------------------------------------------------------------
(* /stop_vps_all and the bulk stop *)

\* the marking that stops at the first record of each owner
StopAllRecords_first_only(vd) ==
    [u \in DOMAIN vd |->
        [i \in 1..Len(vd[u]) |->
            IF i = 1 /\ vd[u][i].status = "running"
            THEN [vd[u][i] EXCEPT !.status = "stopped"] ELSE vd[u][i]]]

\* lines 1153-1157 and 239-242: every record marked running is marked stopped
StopAllRecords(vd) ==
    [u \in DOMAIN vd |->
        [i \in 1..Len(vd[u]) |->
            IF vd[u][i].status = "running"
            THEN [vd[u][i] EXCEPT !.status = "stopped"] ELSE vd[u][i]]]

\* stopped_count of lines 1152-1157
RECURSIVE CountRunning(_)
CountRunning(vps_list) ==
    IF vps_list = <<>> THEN 0
    ELSE (IF Head(vps_list).status = "running" THEN 1 ELSE 0)
         + CountRunning(Tail(vps_list))

RECURSIVE StoppedCount(_, _)
StoppedCount(vd, owners) ==
    IF owners = {} THEN 0
    ELSE LET u == CHOOSE x \in owners : TRUE
         IN  CountRunning(vd[u]) + StoppedCount(vd, owners \ {u})

\* lines 1139-1141, 1173: the warning with its ConfirmView
slash_stop_all_vps(caller) ==
    IF ~IsAdminCaller(caller)
    THEN Reply([op |-> "stop_all", kind |-> "AccessDenied"])
    ELSE Post([kind |-> "ConfirmStopAll"], [op |-> "stop_all", kind |-> "Confirm"])

\* lines 1146-1151: Confirm starts "incus stop --all --force" and waits for
\* it, with no timeout
stop_all_confirm(cv) ==
    /\ cv \in views
    /\ cv.kind = "ConfirmStopAll"
    /\ Room
    /\ Spawn([op |-> "stop_all", pc |-> "stop"])
    /\ issued' = <<StopAllCmd>>
    /\ resp' = [op |-> "stop_all", kind |-> "Stopping"]
    /\ nops' = nops + 1
    /\ UNCHANGED <<user_data, vps_data, admin_data, cpu_monitor_active, disk,
                   incus, monitor, views, top>>

\* lines 1151-1169: the process has ended with exit code 0 or not
stop_all_confirm_stopped(t, o) ==
    /\ Waiting(t, "stop_all", "stop")
    /\ o \in {"ok", "failed"}
    /\ Possible(StopAllCmd, o, incus)
    /\ incus' = After(StopAllCmd, o, incus)
    /\ issued' = <<>>
    /\ Finish(t)
    /\ IF o = "ok"
       THEN /\ vps_data' = StopAllRecords(vps_data)
            /\ save_data(user_data, vps_data', admin_data)
            /\ resp' = [op |-> "stop_all", kind |-> "Stopped",
                        stopped_count |-> StoppedCount(vps_data, DOMAIN vps_data)]
       ELSE /\ resp' = [op |-> "stop_all", kind |-> "Failed",
                        error |-> "command failed"]
            /\ UNCHANGED <<vps_data, disk>>
    /\ UNCHANGED <<user_data, admin_data, cpu_monitor_active, monitor, views, top,
                   nops>>

-----------------------------------------------------------------------------
(* CPU monitor *)

\* str.split(sep) on a line: the pieces between the separators
RECURSIVE Split(_, _)
Split(line, sep) ==
    IF \A i \in 1..Len(line) : line[i] /= sep THEN <<line>>
    ELSE LET k == CHOOSE i \in 1..Len(line) :
                    line[i] = sep /\ \A j \in 1..(i - 1) : line[j] /= sep
         IN  <<SubSeq(line, 1, k - 1)>>
             \o Split(SubSeq(line, k + 1, Len(line)), sep)

\* 'id,' in part
HasIdle(part) ==
    \E i \in 1..(Len(part) - 1) : part[i] = Word("id") /\ part[i + 1] = Comma

\* line 220: float() of the last word before the first '%'; a word that is
\* no number raises ValueError, an empty piece IndexError
Idle(part) ==
    LET before == Split(part, Word("%Cpu(s):"))[1]
    IN  IF before = <<>> THEN [raised |-> TRUE, error |-> "IndexError"]
        ELSE IF before[Len(before)].word /= ""
        THEN [raised |-> TRUE, error |-> "ValueError"]
        ELSE [raised |-> FALSE, value |-> before[Len(before)].n]

\* lines 217-222 over the parts of one summary line
RECURSIVE UsageOfParts(_)
UsageOfParts(parts) ==
    IF parts = <<>> THEN [found |-> FALSE]
    ELSE IF HasIdle(Head(parts))
    THEN LET idle == Idle(Head(parts))
         IN  IF idle.raised THEN [found |-> TRUE, usage |-> 0]
             ELSE [found |-> TRUE, usage |-> 100 - idle.value]
    ELSE UsageOfParts(Tail(parts))

\* lines 216-223: the first summary line with a part holding 'id,' gives the
\* usage; 0.0 when there is none
RECURSIVE UsageOfLines(_)
UsageOfLines(output) ==
    IF output = <<>> THEN 0
    ELSE LET line == Head(output)
             u == UsageOfParts(Split(line, Comma))
         IN  IF (\E i \in 1..Len(line) : line[i] = Word("%Cpu(s):")) /\ u.found
             THEN u.usage
             ELSE UsageOfLines(Tail(output))

\* lines 212-227: 0.0 also when top cannot be run (the except of line 225)
get_cpu_usage(run) == IF run.raised THEN 0 ELSE UsageOfLines(run.stdout)

\* the thread after a sample whose failure ends it
Sampled_ends_on_error(m, run) ==
    [pc |-> IF run.raised THEN "ended" ELSE "loop",
     cpu_usage |-> get_cpu_usage(run),
     log |-> IF run.raised THEN "Error getting CPU usage"
             ELSE "Current CPU usage",
     stops |-> m.stops]

\* lines 233-236: the thread after a sample; log is what the sample wrote
\* to the log (lines 226, 234), stops the bulk stops started so far
Sampled(m, run) ==
    LET cpu_usage == get_cpu_usage(run)
    IN  [pc |-> IF cpu_usage > CPU_THRESHOLD THEN "stopping" ELSE "loop",
         cpu_usage |-> cpu_usage,
         log |-> IF run.raised THEN "Error getting CPU usage"
                 ELSE "Current CPU usage",
         stops |-> IF cpu_usage > CPU_THRESHOLD THEN m.stops + 1
                   ELSE m.stops]

\* lines 229-250: one pass of the loop.  The thread ends when it finds the
\* flag off (line 231).  A usage above the threshold starts the bulk stop,
\* which the thread waits for (line 237, check=True); exit 0 marks the
\* records and saves, anything else is logged (line 245).  Every pass ends
\* in the sleep of CHECK_INTERVAL seconds.
cpu_monitor(o) ==
    /\ monitor.pc /= "ended"
    /\ CASE monitor.pc = "loop" /\ ~cpu_monitor_active ->
              /\ monitor' = [monitor EXCEPT !.pc = "ended"]
              /\ UNCHANGED <<vps_data, disk, incus, top>>
         [] monitor.pc = "loop" /\ cpu_monitor_active ->
              /\ top.read < Len(top.runs)
              /\ monitor' = Sampled(monitor, top.runs[top.read + 1])
              /\ top' = [top EXCEPT !.read = @ + 1]
              /\ UNCHANGED <<vps_data, disk, incus>>
         [] monitor.pc = "stopping" ->
              /\ o \in {"ok", "failed"}
              /\ incus' = After(StopAllCmd, o, incus)
              /\ monitor' = [monitor EXCEPT
                                !.pc = "loop",
                                !.log = IF o = "ok" THEN "All VPS stopped"
                                        ELSE "Error stopping all VPS"]
              /\ IF o = "ok"
                 THEN /\ vps_data' = StopAllRecords(vps_data)
                      /\ save_data(user_data, vps_data', admin_data)
                 ELSE UNCHANGED <<vps_data, disk>>
              /\ UNCHANGED top
    /\ UNCHANGED <<user_data, admin_data, cpu_monitor_active, tasks, views,
                   issued, resp, nops>>

\* lines 1175-1193
slash_cpu_monitor(caller, action) ==
    IF ~IsAdminCaller(caller)
    THEN Reply([op |-> "cpu_monitor", kind |-> "AccessDenied"])
    ELSE /\ nops < MaxOps
         /\ nops' = nops + 1
         /\ cpu_monitor_active' =
                CASE action = "enable" -> TRUE
                  [] action = "disable" -> FALSE
                  [] OTHER -> cpu_monitor_active
         /\ resp' = [op |-> "cpu_monitor",
                     kind |-> CASE action = "status" ->
                                     IF cpu_monitor_active THEN "Active"
                                     ELSE "Inactive"
                                [] action = "enable" -> "Enabled"
                                [] action = "disable" -> "Disabled"
                                [] OTHER -> "InvalidAction"]
         /\ issued' = <<>>
         /\ UNCHANGED <<user_data, vps_data, admin_data, disk, incus, tasks,
                        monitor, views, top>>

-----------------------------------------------------------------------------
(* /set_ip  (v2.py:1195-1216) *)

\* lines 1200-1202: the first record of that name, as <<owner, place>>
Places(container_name) ==
    {s \in UNION {{<<u, i>> : i \in 1..Len(vps_data[u])} : u \in DOMAIN vps_data} :
        vps_data[s[1]][s[2]].container_name = container_name}

FirstPlace(container_name) ==
    CHOOSE s \in Places(container_name) :
        \A s2 \in Places(container_name) : s2[1] = s[1] => s[2] <= s2[2]

\* lines 1199-1204 and 1214-1216: the record is looked up, set_static_ip
\* starts its first command
slash_set_ip(caller, container_name, ipv4, ipv6) ==
    IF ~IsAdminCaller(caller)
    THEN Reply([op |-> "set_ip", kind |-> "AccessDenied"])
    ELSE IF Places(container_name) = {}
    THEN Reply([op |-> "set_ip", kind |-> "NotFound",
                container_name |-> container_name])
    ELSE LET s == FirstPlace(container_name)
         IN  /\ Room
             /\ Spawn([op |-> "set_ip", pc |-> "static",
                       container_name |-> container_name,
                       user_id |-> s[1], place |-> s[2],
                       ipv4 |-> ipv4, ipv6 |-> ipv6])
             /\ issued' = <<Head(StaticIpCommands(container_name, ipv4, ipv6))>>
             /\ resp' = [op |-> "set_ip", kind |-> "Setting",
                         container_name |-> container_name]
             /\ nops' = nops + 1
             /\ UNCHANGED <<user_data, vps_data, admin_data,
                            cpu_monitor_active, disk, incus, monitor, views,
                            top>>

\* the update with the record named after its address as well
WithStaticIps_named(vps, ipv4, ipv6) ==
    [vps EXCEPT !.container_name =
                    IF ipv4 /= None THEN ContainerName(ipv4, 1) ELSE @,
                !.ipv4 = IF ipv4 /= None THEN ipv4 ELSE @,
                !.ipv6 = IF ipv6 /= None THEN ipv6 ELSE @]

\* vps['ipv4'] = ipv4 or vps.get('ipv4', 'Not assigned'), and the same for
\* ipv6 (lines 1206-1207)
WithStaticIps(vps, ipv4, ipv6) ==
    [vps EXCEPT !.ipv4 = IF ipv4 /= None THEN ipv4 ELSE @,
                !.ipv6 = IF ipv6 /= None THEN ipv6 ELSE @]

\* lines 1204-1213: set_static_ip has ended, at the command failAt or, for
\* failAt = 0, with every command done.  vps is the record found on entry:
\* it is written where the owner's list holds it now, a delete of an earlier
\* record having moved it one place down, and nowhere once it was deleted.
slash_set_ip_done(t, failAt) ==
    LET cmds == StaticIpCommands(t.container_name, t.ipv4, t.ipv6)
        success == failAt = 0
        mine == {s \in Places(t.container_name) : s[1] = t.user_id}
        held == mine /= {}
        place == (CHOOSE s \in mine : \A s2 \in mine : s[2] <= s2[2])[2]
    IN  /\ Waiting(t, "set_ip", "static")
        /\ failAt \in 0..Len(cmds)
        /\ \A i \in 1..Len(cmds) :
              (success \/ i < failAt) => CanSucceed(cmds[i], incus)
        /\ Finish(t)
        /\ issued' = <<>>
        /\ IF success
           THEN /\ incus' = Effect(RestartCmd(t.container_name), incus)
                /\ vps_data' =
                      IF held
                      THEN [vps_data EXCEPT ![t.user_id][place] =
                               WithStaticIps(@, t.ipv4, t.ipv6)]
                      ELSE vps_data
                /\ save_data(user_data, vps_data', admin_data)
                /\ resp' = [op |-> "set_ip", kind |-> "StaticIpSet",
                            container_name |-> t.container_name]
           ELSE /\ resp' = [op |-> "set_ip", kind |-> "Failed",
                            container_name |-> t.container_name]
                /\ UNCHANGED <<vps_data, disk, incus>>
        /\ UNCHANGED <<user_data, admin_data, cpu_monitor_active, monitor,
                       views, top, nops>>

-----------------------------------------------------------------------------
(* /backup_vps, /restore_vps, /exec  (v2.py:1068-1137) *)

SnapshotCmd(container_name, snapshot_name) ==
    [cmd |-> "snapshot", name |-> container_name, snapshot |-> snapshot_name]
RestoreCmd(container_name, snapshot_name) ==
    [cmd |-> "restore", name |-> container_name, snapshot |-> snapshot_name]
ExecCmd(container_name, command) ==
    [cmd |-> "exec bash -c", name |-> container_name, command |-> command]

\* lines 1071-1075: f"{container_name}-backup-{now}"
slash_backup_vps(caller, container_name) ==
    IF ~IsAdminCaller(caller)
    THEN Reply([op |-> "backup", kind |-> "AccessDenied"])
    ELSE LET snapshot_name == <<container_name, "backup", Now>>
         IN  /\ Room
             /\ Spawn([op |-> "backup", pc |-> "snapshot",
                       container_name |-> container_name,
                       snapshot_name |-> snapshot_name])
             /\ issued' = <<SnapshotCmd(container_name, snapshot_name)>>
             /\ resp' = [op |-> "backup", kind |-> "Creating",
                         container_name |-> container_name]
             /\ nops' = nops + 1
             /\ UNCHANGED <<user_data, vps_data, admin_data,
                            cpu_monitor_active, disk, incus, monitor, views,
                            top>>

\* lines 1075-1078
slash_backup_vps_done(t, o) ==
    LET c == SnapshotCmd(t.container_name, t.snapshot_name)
        r == execute_incus(o, NoOutput)
    IN  /\ Waiting(t, "backup", "snapshot")
        /\ Possible(c, o, incus)
        /\ incus' = After(c, o, incus)
        /\ Finish(t)
        /\ issued' = <<>>
        /\ resp' = IF r.raised
                   THEN [op |-> "backup", kind |-> "Failed", error |-> r.error,
                         container_name |-> t.container_name]
                   ELSE [op |-> "backup", kind |-> "Created",
                         container_name |-> t.container_name]
        /\ UNCHANGED <<user_data, vps_data, admin_data, cpu_monitor_active,
                       disk, monitor, views, top, nops>>

\* lines 1080-1084
slash_restore_vps(caller, container_name, snapshot_name) ==
    IF ~IsAdminCaller(caller)
    THEN Reply([op |-> "restore", kind |-> "AccessDenied"])
    ELSE /\ Room
         /\ Spawn([op |-> "restore", pc |-> "restore",
                   container_name |-> container_name,
                   snapshot_name |-> snapshot_name])
         /\ issued' = <<RestoreCmd(container_name, snapshot_name)>>
         /\ resp' = [op |-> "restore", kind |-> "Restoring",
                     container_name |-> container_name]
         /\ nops' = nops + 1
         /\ UNCHANGED <<user_data, vps_data, admin_data, cpu_monitor_active,
                        disk, incus, monitor, views, top>>

\* the restore that marks the record running and saves, as a restart does
slash_restore_vps_done_marking(t, o) ==
    LET c == RestoreCmd(t.container_name, t.snapshot_name)
        r == execute_incus(o, NoOutput)
    IN  /\ Waiting(t, "restore", "restore")
        /\ Possible(c, o, incus)
        /\ incus' = After(c, o, incus)
        /\ Finish(t)
        /\ issued' = <<>>
        /\ resp' = IF r.raised
                   THEN [op |-> "restore", kind |-> "Failed", error |-> r.error,
                         container_name |-> t.container_name]
                   ELSE [op |-> "restore", kind |-> "Restored",
                         container_name |-> t.container_name]
        /\ vps_data' = IF r.raised THEN vps_data
                       ELSE Restarted(vps_data, t.container_name)
        /\ save_data(user_data, vps_data', admin_data)
        /\ UNCHANGED <<user_data, admin_data, cpu_monitor_active, monitor,
                       views, top, nops>>

\* lines 1084-1087
slash_restore_vps_done(t, o) ==
    LET c == RestoreCmd(t.container_name, t.snapshot_name)
        r == execute_incus(o, NoOutput)
    IN  /\ Waiting(t, "restore", "restore")
        /\ Possible(c, o, incus)
        /\ incus' = After(c, o, incus)
        /\ Finish(t)
        /\ issued' = <<>>
        /\ resp' = IF r.raised
                   THEN [op |-> "restore", kind |-> "Failed", error |-> r.error,
                         container_name |-> t.container_name]
                   ELSE [op |-> "restore", kind |-> "Restored",
                         container_name |-> t.container_name]
        /\ UNCHANGED <<user_data, vps_data, admin_data, cpu_monitor_active,
                       disk, monitor, views, top, nops>>

\* A stream of /exec is a list of characters.  text.strip() is not empty:
Blank(ch) == ch \in {" ", "\n"}
NotBlank(text) == \E i \in 1..Len(text) : ~Blank(text[i])

\* lines 1128 and 1131: the bound on a reported stream and what follows the
\* cut
OutputLimit == 1000
Truncated == <<"\n... (truncated)">>

\* the cut made from the bound on
Cut_at_bound(text) ==
    IF Len(text) >= OutputLimit THEN SubSeq(text, 1, OutputLimit) \o Truncated
    ELSE text

\* if len(output) > 1000: output = output[:1000] + "\n... (truncated)"
Cut(text) ==
    IF Len(text) > OutputLimit THEN SubSeq(text, 1, OutputLimit) \o Truncated
    ELSE text

NoOutputText == <<"N", "o", " ", "o", "u", "t", "p", "u", "t">>

\* lines 1120-1124
slash_execute(caller, container_name, command) ==
    IF ~IsAdminCaller(caller)
    THEN Reply([op |-> "exec", kind |-> "AccessDenied"])
    ELSE /\ Room
         /\ Spawn([op |-> "exec", pc |-> "communicate",
                   container_name |-> container_name, command |-> command])
         /\ issued' = <<ExecCmd(container_name, command)>>
         /\ resp' = [op |-> "exec", kind |-> "Executing",
                     container_name |-> container_name]
         /\ nops' = nops + 1
         /\ UNCHANGED <<user_data, vps_data, admin_data, cpu_monitor_active,
                        disk, incus, monitor, views, top>>

\* lines 1125-1137: the process has ended with proc.returncode, proc.stdout
\* and proc.stderr, or could not be started (raised).  The embed gets the
\* output field and the error field when they are not blank, and the exit
\* code.
slash_execute_done(t, raised, proc) ==
    LET output == IF proc.stdout /= <<>> THEN proc.stdout ELSE NoOutputText
        error == proc.stderr
    IN  /\ Waiting(t, "exec", "communicate")
        /\ Finish(t)
        /\ issued' = <<>>
        /\ resp' = IF raised
                   THEN [op |-> "exec", kind |-> "Failed",
                         container_name |-> t.container_name]
                   ELSE [op |-> "exec", kind |-> "Output",
                         container_name |-> t.container_name, proc |-> proc,
                         output_shown |-> NotBlank(output),
                         output |-> IF NotBlank(output) THEN Cut(output) ELSE <<>>,
                         error_shown |-> NotBlank(error),
                         error |-> IF NotBlank(error) THEN Cut(error) ELSE <<>>,
                         exit_code |-> proc.returncode]
        /\ UNCHANGED <<user_data, vps_data, admin_data, cpu_monitor_active,
                       disk, incus, monitor, views, top, nops>>

-----------------------------------------------------------------------------
(* Loading the store  (v2.py:89-92) *)

\* lines 89-92: the three loaders run in turn when the module is loaded; an
\* exception out of one of them ends the start of the program there
load ==
    LET r == load_vps_data(disk.vps_data)
    IN  /\ resp = NoResp
        /\ vps_data = None
        /\ user_data' = load_data(disk.user_data)
        /\ IF r.raised
           THEN /\ resp' = [op |-> "load", kind |-> "Failed", error |-> r.error]
                /\ UNCHANGED <<vps_data, admin_data>>
           ELSE /\ vps_data' = r.value
                /\ admin_data' = load_admin_data(disk.admin_data)
                /\ resp' = [op |-> "load", kind |-> "Loaded"]
        /\ UNCHANGED <<cpu_monitor_active, disk, incus, tasks, monitor, views,
                       top, issued, nops>>

-----------------------------------------------------------------------------
(* The runner and the address query called on their own *)

\* one call of execute_incus; the answer is what the caller gets
execute_incus_call(command, timeout, proc) ==
    /\ resp' = [op |-> "execute_incus", command |-> command,
                timeout |-> timeout, proc |-> proc,
                result |-> execute_incus_on(command, timeout, proc)]
    /\ issued' = <<command>>
    /\ UNCHANGED <<user_data, vps_data, admin_data, cpu_monitor_active, disk,
                   incus, tasks, monitor, views, top, nops>>

\* lines 159-177: one call of get_container_ips
get_container_ips_call(container_name, proc) ==
    LET r == execute_incus_on(IpAddrCmd(container_name), IpTimeout, proc)
    IN  /\ resp' = [op |-> "get_container_ips",
                    container_name |-> container_name, proc |-> proc,
                    value |-> get_container_ips(r)]
        /\ issued' = <<IpAddrCmd(container_name)>>
        /\ UNCHANGED <<user_data, vps_data, admin_data, cpu_monitor_active,
                       disk, incus, tasks, monitor, views, top, nops>>

-----------------------------------------------------------------------------
(* Inputs *)

\* <<ram, cpu>> as given to /create
SpecInputs == {<<1, 1>>, <<0, 1>>, <<1, 0>>, <<-1, -1>>}
StaticIPv4 == "137.175.89.56"
NumberInputs == 0..3

\* what "ip addr show eth0" can print: nothing, or the address lines
AddrText == << <<"inet6", "fe80::1", "scope", "link">>,
               <<"inet", "10.0.0.5", "scope", "global">>,
               <<"inet6", "fd42::5", "scope", "global">> >>

\* the ends of an address query: <<outcome, stdout>>
QueryEnds == {<<"ok", AddrText>>, <<"ok", NoOutput>>, <<"timeout", NoOutput>>}

TaskSet == BagToSet(tasks)

(***************************************************************************)
(* The inventory handlers on their own: create, purchase, credits, delete, *)
(* called by the main admin (create, credits, delete) and by tenant u2     *)
(* (purchase).  No static address is asked for and the address query       *)
(* answers.                                                                *)
(***************************************************************************)

CreateSteps ==
    \/ \E user \in Tenants, spec \in SpecInputs :
            slash_create(MAIN_ADMIN_ID, user, spec[1], spec[2], None, None)
    \/ \E t \in TaskSet, o \in Outcomes : slash_create_launched(t, o)
    \/ \E t \in TaskSet :
            slash_create_append(t, "ok", AddrText, 0, "ok", AddrText)

PurchaseSteps ==
    \/ slash_buywc("u2", "Starter", "Intel", None, None)
    \/ \E t \in TaskSet, o \in Outcomes : slash_buywc_launched(t, o)
    \/ \E t \in TaskSet :
            slash_buywc_append(t, "ok", AddrText, 0, "ok", AddrText)
    \/ slash_admin_credits(MAIN_ADMIN_ID, "u2", 50)

DeleteSteps ==
    \/ \E user \in Tenants, vps_number \in NumberInputs :
            slash_delete_vps(MAIN_ADMIN_ID, user, vps_number)
    \/ \E t \in TaskSet, o \in Outcomes : slash_delete_vps_deleted(t, o)

NextInventory == CreateSteps \/ PurchaseSteps \/ DeleteSteps

SpecInventory == Init /\ [][NextInventory]_vars

(***************************************************************************)
(* The ledger: purchases by u2, credits added and removed by the main      *)
(* admin, and the balance query.                                           *)
(***************************************************************************)

AmountTexts ==
    {<<"a", "l", "l">>, <<"A", "l", "L">>, <<"5">>, <<"9", "9">>, <<"-", "5">>,
     <<"0">>, <<"x">>, <<>>}

NextCredits ==
    \/ PurchaseSteps
    \/ \E caller \in {MAIN_ADMIN_ID, "u1"}, amount_or_all \in AmountTexts :
            slash_admin_remove_credits(caller, "u2", amount_or_all)
    \/ \E caller \in Tenants : slash_credits(caller)

SpecCredits == Init /\ [][NextCredits]_vars

(***************************************************************************)
(* The admin set: the main admin adds and removes admins, and every caller *)
(* tries the admin commands on the ledger.                                 *)
(***************************************************************************)

NextAdmins ==
    \/ \E caller, user \in Callers : slash_admin_add(caller, user)
    \/ \E caller, user \in Callers : slash_admin_remove(caller, user)
    \/ \E caller \in Callers : slash_admin_credits(caller, "u2", 50)
    \/ \E caller \in Callers :
            slash_admin_remove_credits(caller, "u2", <<"5">>)

SpecAdmins == Init /\ [][NextAdmins]_vars

Buttons == {"start", "stop", "reinstall", "tmate"}
MonitorActions == {"status", "enable", "disable", "on"}

(***************************************************************************)
(* The lifecycle handlers: a create by the main admin, the tenant's and    *)
(* the admin's ManageView with its buttons, restart, the bulk stop by an   *)
(* admin and by the CPU monitor, and the monitor's switch.                 *)
(***************************************************************************)

LaunchSteps ==
    \/ \E user \in Tenants : slash_create(MAIN_ADMIN_ID, user, 1, 1, None, None)
    \/ \E t \in TaskSet, o \in Outcomes : slash_create_launched(t, o)
    \/ \E t \in TaskSet, q \in QueryEnds :
            slash_create_append(t, q[1], q[2], 0, "ok", AddrText)

ViewSteps ==
    \/ \E user \in {None, "u1"} :
            manage_vps(IF user = None THEN "u1" ELSE MAIN_ADMIN_ID, user)
    \/ \E v \in ManageViews, value \in 0..1 : select_vps(v, v.user_id, value)
    \/ \E v \in ManageViews, caller \in {"u1", "u2"}, action \in Buttons :
          \E o \in IF action \in {"start", "stop"} THEN Outcomes ELSE {"ok"} :
            action_callback(v, caller, action, o)
    \/ \E cv \in views, o1, o2 \in {"ok", "failed"} :
            reinstall_confirm(cv, o1, o2)

RestartSteps ==
    \/ \E n \in 1..2 : slash_restart_vps(MAIN_ADMIN_ID, ContainerName("u1", n))
    \/ \E t \in TaskSet, o \in Outcomes : slash_restart_vps_restarted(t, o)

StopAllSteps ==
    \/ slash_stop_all_vps(MAIN_ADMIN_ID)
    \/ \E cv \in views : stop_all_confirm(cv)
    \/ \E t \in TaskSet, o \in Outcomes : stop_all_confirm_stopped(t, o)

MonitorSteps ==
    \/ \E o \in IF monitor.pc = "stopping" THEN Outcomes ELSE {"ok"} :
            cpu_monitor(o)
    \/ \E action \in MonitorActions : slash_cpu_monitor(MAIN_ADMIN_ID, action)

NextLifecycle ==
    LaunchSteps \/ ViewSteps \/ RestartSteps \/ StopAllSteps \/ MonitorSteps

SpecLifecycle == Init /\ [][NextLifecycle]_vars

(***************************************************************************)
(* Sharing: tenants share and revoke their VPS, the owner, a shared user   *)
(* and the main admin open views on them and press the buttons.            *)
(***************************************************************************)

ShareSteps ==
    \/ \E caller, shared_user \in Tenants, vps_number \in NumberInputs :
            slash_share_user(caller, shared_user, vps_number)
    \/ \E caller, shared_user \in Tenants, vps_number \in NumberInputs :
            slash_revoke_share(caller, shared_user, vps_number)
    \/ \E caller, owner \in Tenants, vps_number \in NumberInputs :
            slash_manage_shared(caller, owner, vps_number)

NextSharing ==
    \/ ShareSteps
    \/ \E user \in {None, "u1"} :
            manage_vps(IF user = None THEN "u1" ELSE MAIN_ADMIN_ID, user)
    \/ \E v \in ManageViews, value \in 0..1 : select_vps(v, v.user_id, value)
    \/ \E v \in ManageViews, caller \in Callers, action \in Buttons :
            action_callback(v, caller, action, "ok")
    \/ \E cv \in views, o1, o2 \in {"ok", "failed"} :
            reinstall_confirm(cv, o1, o2)

SpecSharing == Init /\ [][NextSharing]_vars

\* the same handlers, started on an inventory that holds a share already
SpecRevoke == InitShared /\ [][NextSharing]_vars

(***************************************************************************)
(* Static addresses: creates that ask for one, and /set_ip.                *)
(***************************************************************************)

StaticIPv6 == "2001:db8::56"
StaticInputs == {<<StaticIPv4, None>>, <<StaticIPv4, StaticIPv6>>}

NextStatic ==
    \/ \E a \in StaticInputs :
            slash_create(MAIN_ADMIN_ID, "u1", 1, 1, a[1], a[2])
    \/ \E t \in TaskSet, o \in Outcomes : slash_create_launched(t, o)
    \/ \E t \in TaskSet, q \in QueryEnds, failAt \in 0..3 :
            slash_create_append(t, q[1], q[2], failAt, "ok", AddrText)
    \/ \E n \in 1..2 :
            slash_set_ip(MAIN_ADMIN_ID, ContainerName("u1", n), StaticIPv4, None)
    \/ \E t \in TaskSet, failAt \in 0..2 : slash_set_ip_done(t, failAt)

SpecStatic == Init /\ [][NextStatic]_vars

(***************************************************************************)
(* Every handler that writes a record, together: the owner's view with its *)
(* buttons and the reinstall, restart, the bulk stop, share and revoke,    *)
(* /set_ip, and the deletes of u1's records, next to creates for u2.       *)
(***************************************************************************)

NextRecords ==
    \/ manage_vps("u1", None)
    \/ \E v \in ManageViews, value \in 0..1 : select_vps(v, v.user_id, value)
    \/ \E v \in ManageViews, action \in Buttons :
          \E o \in IF action \in {"start", "stop"} THEN Outcomes ELSE {"ok"} :
            action_callback(v, "u1", action, o)
    \/ \E cv \in views, o1, o2 \in {"ok", "failed"} :
            reinstall_confirm(cv, o1, o2)
    \/ RestartSteps
    \/ StopAllSteps
    \/ \E vps_number \in 1..2 : slash_share_user("u1", "u2", vps_number)
    \/ \E vps_number \in 1..2 : slash_revoke_share("u1", "u2", vps_number)
    \/ \E n \in 1..2 :
            slash_set_ip(MAIN_ADMIN_ID, ContainerName("u1", n), StaticIPv4, None)
    \/ \E t \in TaskSet, failAt \in 0..1 : slash_set_ip_done(t, failAt)
    \/ \E vps_number \in 1..2 : slash_delete_vps(MAIN_ADMIN_ID, "u1", vps_number)
    \/ \E t \in TaskSet, o \in Outcomes : slash_delete_vps_deleted(t, o)
    \/ slash_create(MAIN_ADMIN_ID, "u2", 1, 1, None, None)
    \/ \E t \in TaskSet, o \in Outcomes : slash_create_launched(t, o)
    \/ \E t \in TaskSet :
            slash_create_append(t, "ok", AddrText, 0, "ok", AddrText)

SpecRecords == Init /\ [][NextRecords]_vars

(***************************************************************************)
(* The admin tools on a container: backup, restore and exec, next to the   *)
(* bulk stop and the restart, which do write the records.                  *)
(***************************************************************************)

\* a stream of n characters
Stream(n) == [i \in 1..n |-> IF i % 2 = 1 THEN "x" ELSE "y"]
StdoutStreams ==
    {<<>>, <<" ", "\n">>, Stream(2), Stream(OutputLimit), Stream(OutputLimit + 1)}
StderrStreams == {<<>>, <<"\n">>, Stream(3), Stream(OutputLimit + 2)}
ExecProcesses ==
    [returncode : {0, 1}, stdout : StdoutStreams, stderr : StderrStreams]

ToolSteps ==
    \/ slash_backup_vps(MAIN_ADMIN_ID, ContainerName("u1", 1))
    \/ \E t \in TaskSet, o \in Outcomes : slash_backup_vps_done(t, o)
    \/ slash_restore_vps(MAIN_ADMIN_ID, ContainerName("u1", 1), "snap0")
    \/ \E t \in TaskSet, o \in Outcomes : slash_restore_vps_done(t, o)
    \/ slash_execute(MAIN_ADMIN_ID, ContainerName("u1", 1), "uptime")
    \/ \E t \in TaskSet, proc \in ExecProcesses :
          \E raised \in IF proc = [returncode |-> 0, stdout |-> <<>>, stderr |-> <<>>]
                         THEN BOOLEAN ELSE {FALSE} :
            slash_execute_done(t, raised, proc)

NextTools == ToolSteps \/ StopAllSteps \/ RestartSteps

SpecTools == Init /\ [][NextTools]_vars

(***************************************************************************)
(* The handlers that wait on the runtime, with the runtime free to leave a *)
(* process running for ever.  A wait inside execute_incus ends at the      *)
(* latest with its timeout (asyncio.wait_for, line 142), so the steps that *)
(* end such a wait are taken in the end.  /exec and the bulk stop wait in  *)
(* proc.communicate() itself (lines 1124, 1151): the step that ends their  *)
(* wait needs the process to exit, and nothing makes it.                   *)
(***************************************************************************)

CreateReturns ==
    \/ \E t \in TaskSet, o \in Outcomes : slash_create_launched(t, o)
    \/ \E t \in TaskSet, q \in QueryEnds :
            slash_create_append(t, q[1], q[2], 0, "ok", AddrText)
DeleteReturns ==
    \E t \in TaskSet, o \in Outcomes : slash_delete_vps_deleted(t, o)
BackupReturns ==
    \E t \in TaskSet, o \in Outcomes : slash_backup_vps_done(t, o)
RestoreReturns ==
    \E t \in TaskSet, o \in Outcomes : slash_restore_vps_done(t, o)

NextWaits ==
    \/ slash_create(MAIN_ADMIN_ID, "u1", 1, 1, None, None)
    \/ CreateReturns
    \/ slash_delete_vps(MAIN_ADMIN_ID, "u1", 1)
    \/ DeleteReturns
    \/ ToolSteps
    \/ StopAllSteps

SpecWaits ==
    /\ Init /\ [][NextWaits]_vars
    /\ WF_vars(CreateReturns) /\ WF_vars(DeleteReturns)
    /\ WF_vars(BackupReturns) /\ WF_vars(RestoreReturns)

(***************************************************************************)
(* The start of the program over the files it can find: each of the three  *)
(* missing, not JSON, or a JSON document; the inventory document with the  *)
(* per-tenant values of the old encodings, of the present one and of       *)
(* neither, or not an object at all.                                       *)
(***************************************************************************)

StoredRecord(n) ==
    JDict(<< <<"container_name", JStr(ContainerName("u1", n))>>,
             <<"status", JStr("running")>> >>)
StoredRecords == {StoredRecord(1), StoredRecord(2)}

TenantValues ==
    StoredRecords
    \cup {JDict(<< <<"0", StoredRecord(1)>> >>),
          JDict(<< <<"vps1", StoredRecord(1)>>, <<"vps2", StoredRecord(2)>> >>),
          JList(<< StoredRecord(1) >>), JList(<< StoredRecord(2), StoredRecord(1) >>),
          JList(<<>>), JStr("vps-u1-1"), JNull}

InventoryDocuments ==
    {JDict(<<>>), JList(<<>>), JNull}
    \cup {JDict(<< <<"u1", v>> >>) : v \in TenantValues}
    \cup {JDict(<< <<"u1", v[1]>>, <<"u2", v[2]>> >>) : v \in TenantValues \X TenantValues}

LedgerFiles ==
    {Missing, Corrupt, JsonFile(JDict(<< <<"u1", JDict(<< <<"credits", JNum(50)>> >>)>> >>))}
AdminFiles ==
    {Missing, Corrupt, JsonFile(JDict(<< <<"admins", JList(<< JStr(MAIN_ADMIN_ID), JStr("u2") >>)>> >>))}
InventoryFiles == {Missing, Corrupt} \cup {JsonFile(d) : d \in InventoryDocuments}

InitLoad ==
    /\ disk \in [user_data : LedgerFiles, vps_data : InventoryFiles,
                  admin_data : AdminFiles]
    /\ user_data = None
    /\ vps_data = None
    /\ admin_data = None
    /\ incus = EmptyDict
    /\ cpu_monitor_active = TRUE
    /\ tasks = EmptyBag
    /\ monitor = MonitorStart
    /\ views = {}
    /\ top = BusyHost
    /\ issued = <<>>
    /\ resp = NoResp
    /\ nops = 0

SpecLoad == InitLoad /\ [][load]_vars

(***************************************************************************)
(* The runner and the address query on their own: every command line,      *)
(* timeout and process of the sets below.                                  *)
(***************************************************************************)

CommandLines == {"incus delete vps-u1-1 --force", "incus restart vps-u1-1"}
Timeouts == {IpTimeout, DefaultTimeout}
Durations == {1, 100, 400}
ExitCodes == {0, 1}
NoAddrText == << <<"link/ether", "00:16:3e:aa:bb:cc">> >>
StdoutTexts == {NoOutput, << <<>> >>, AddrText, << <<>> >> \o AddrText \o << <<>> >>,
                NoAddrText}
StderrTexts == {NoOutput, << <<>>, <<>> >>, << <<"Error:", "Instance", "not", "found">> >>}
Processes ==
    [duration : Durations, returncode : ExitCodes, stdout : StdoutTexts,
     stderr : StderrTexts]

NextRunner ==
    \/ \E command \in CommandLines, timeout \in Timeouts, proc \in Processes :
            execute_incus_call(command, timeout, proc)
    \/ \E proc \in Processes :
            get_container_ips_call(ContainerName("u1", 1), proc)

SpecRunner == Init /\ [][NextRunner]_vars

(***************************************************************************)
(* The CPU monitor and its switch, on a host whose usage is 50, 95, 95, 40 *)
(* at successive samples and on a host where top cannot be run.            *)
(***************************************************************************)

NextMonitor ==
    \/ \E o \in IF monitor.pc = "stopping" THEN Outcomes ELSE {"ok"} :
            cpu_monitor(o)
    \/ \E action \in MonitorActions : slash_cpu_monitor(MAIN_ADMIN_ID, action)
    \/ slash_stop_all_vps(MAIN_ADMIN_ID)
    \/ \E cv \in views : stop_all_confirm(cv)
    \/ \E t \in TaskSet, o \in Outcomes : stop_all_confirm_stopped(t, o)

SpecMonitor == InitMonitor /\ [][NextMonitor]_vars

-----------------------------------------------------------------------------
(* Properties of the inventory handlers *)

\* every record of the inventory, as <<owner, number>>
Slots == {<<u, i>> : u \in Tenants, i \in NumberInputs}
Records == {s \in Slots : s[1] \in DOMAIN vps_data /\ s[2] \in 1..Len(vps_data[s[1]])}
RecordAt(s) == vps_data[s[1]][s[2]]
Listed(container_name) == \E s \in Records : RecordAt(s).container_name = container_name

\* C1: a /create with ram <= 0 or cpu <= 0 is answered with the validation
\* error, issues no incus command, starts no task, and leaves the inventory,
\* the ledger and the admin set, in memory and on disk, and the runtime as
\* they were: the owner gets no entry.
C1_InvalidCreateRejected ==
    [][\A user \in Tenants, spec \in SpecInputs :
          (/\ spec[1] <= 0 \/ spec[2] <= 0
           /\ slash_create(MAIN_ADMIN_ID, user, spec[1], spec[2], None, None))
          => /\ resp' = [op |-> "create", kind |-> "InvalidSpecs"]
             /\ issued' = <<>>
             /\ UNCHANGED <<user_data, vps_data, admin_data, disk, incus, tasks>>]_vars

\* a rejected create, answered while another create waits for its launch and
\* tenant u2 has no entry yet
C1_Witness ==
    /\ resp = [op |-> "create", kind |-> "InvalidSpecs"]
    /\ "u2" \notin DOMAIN vps_data
    /\ \E t \in TaskSet : t.op = "create" /\ t.pc = "launch"

\* C2: when the launch of a create or of a purchase fails or times out, no
\* record with the container_id that create derived is in the inventory.
C2_FailedLaunchLeavesNoRecord ==
    (/\ resp.op \in {"create", "buywc"}
     /\ resp.kind = "Failed"
     /\ resp.error \in {"command failed", "timed out"})
    => ~Listed(resp.container_name)

\* C3: no two records of the inventory have the same container_id.
C3_NoDuplicateContainerIds ==
    \A s1 \in Records, s2 \in Records :
        RecordAt(s1).container_name = RecordAt(s2).container_name => s1 = s2

\* C4: a delete that reports success removes from the inventory the record of
\* the container it force-deleted, and nothing else.
C4_DeleteRemovesItsRecord ==
    [][(resp'.op = "delete" /\ resp'.kind = "Deleted")
       => LET u == resp'.user_id
          IN  /\ u \in DOMAIN vps_data
              /\ \E i \in 1..Len(vps_data[u]) :
                    /\ vps_data[u][i].container_name = resp'.container_name
                    /\ vps_data' = DeleteRecord(vps_data, u, i)]_vars

\* C5: a successful delete of a tenant's only record removes the tenant's key;
\* a successful delete of one of several leaves the records before it in
\* place and moves every record after it down by one number, each with its
\* container_id and its other fields as they were; other tenants' lists are
\* untouched.
C5_DeleteShiftsNumbers ==
    [][(resp'.op = "delete" /\ resp'.kind = "Deleted")
       => LET u == resp'.user_id
              n == resp'.vps_number
              old == vps_data[u]
          IN  /\ u \in DOMAIN vps_data
              /\ n \in 1..Len(old)
              /\ IF Len(old) = 1
                 THEN u \notin DOMAIN vps_data'
                 ELSE /\ u \in DOMAIN vps_data'
                      /\ Len(vps_data'[u]) = Len(old) - 1
                      /\ \A i \in 1..(n - 1) : vps_data'[u][i] = old[i]
                      /\ \A i \in (n + 1)..Len(old) : vps_data'[u][i - 1] = old[i]
              /\ \A w \in DOMAIN vps_data \ {u} :
                    w \in DOMAIN vps_data' /\ vps_data'[w] = vps_data[w]]_vars

\* VPS #1 of u1 was deleted and the record created as number 2 now answers to
\* number 1
C5_Witness ==
    /\ resp.op = "delete" /\ resp.kind = "Deleted"
    /\ resp.user_id = "u1" /\ resp.vps_number = 1
    /\ "u1" \in DOMAIN vps_data
    /\ vps_data["u1"][1].container_name = ContainerName("u1", 2)

\* the other case of C5: the only record of u2 was deleted and the key went
C5_WitnessOnlyRecord ==
    /\ resp.op = "delete" /\ resp.kind = "Deleted" /\ resp.user_id = "u2"
    /\ "u2" \notin DOMAIN vps_data

\* C6 as claimed: after a successful delete of <<tenant, number>>, a second
\* delete of the same tenant and number is answered not-found, issues no
\* incus command and removes no record.
C6_SecondDeleteNotFound ==
    [][\A user \in Tenants, n \in NumberInputs :
          (/\ resp.op = "delete" /\ resp.kind = "Deleted"
           /\ resp.user_id = user /\ resp.vps_number = n
           /\ slash_delete_vps(MAIN_ADMIN_ID, user, n))
          => /\ resp' = [op |-> "delete", kind |-> "InvalidVPS"]
             /\ issued' = <<>>
             /\ UNCHANGED <<vps_data, disk, incus, tasks>>]_vars

\* C6 as amended: the second delete is answered not-found, issues no incus
\* command and removes no record when no record has moved into the number,
\* that is when the tenant is left with fewer records than the number.
C6_SecondDeleteNotFoundWhenLast ==
    [][\A user \in Tenants, n \in NumberInputs :
          (/\ resp.op = "delete" /\ resp.kind = "Deleted"
           /\ resp.user_id = user /\ resp.vps_number = n
           /\ user \in DOMAIN vps_data => Len(vps_data[user]) < n
           /\ slash_delete_vps(MAIN_ADMIN_ID, user, n))
          => /\ resp' = [op |-> "delete", kind |-> "InvalidVPS"]
             /\ issued' = <<>>
             /\ UNCHANGED <<vps_data, disk, incus, tasks>>]_vars

\* both VPS of the earlier run are deleted, in the runtime and in the saved
\* inventory, and a further delete has been answered not-found
C6_Witness ==
    /\ resp = [op |-> "delete", kind |-> "InvalidVPS"]
    /\ "u1" \notin DOMAIN vps_data
    /\ "u1" \notin DOMAIN disk.vps_data
    /\ DOMAIN incus = {}
    /\ nops >= 2
    /\ tasks = EmptyBag

-----------------------------------------------------------------------------
(* Properties of the lifecycle handlers *)

\* the status of the records that carry the name
StatusOf(vd, container_name) ==
    {vd[u][i].status : <<u, i>> \in
        {s \in Slots : /\ s[1] \in DOMAIN vd
                       /\ s[2] \in 1..Len(vd[s[1]])
                       /\ vd[s[1]][s[2]].container_name = container_name}}

\* C7: a Start or Stop whose command the runtime carries out (exit 0) leaves
\* the record of that container with status running, respectively stopped,
\* and the documents on disk equal to the store in memory.
C7_StartStopTakesEffect ==
    [][(/\ resp'.op \in {"start", "stop"}
        /\ resp'.kind \in {"Failed", "Done"}
        /\ resp'.runtime = "ok")
       => /\ StatusOf(vps_data', resp'.container_name)
                = {IF resp'.op = "start" THEN "running" ELSE "stopped"}
          /\ disk' = Documents(user_data', vps_data', admin_data')]_vars

C9_StatusMatchesRuntime ==
    (tasks = EmptyBag /\ monitor.pc /= "stopping")
    => \A s \in Records :
          RecordAt(s).container_name \in DOMAIN incus
          => RecordAt(s).status = incus[RecordAt(s).container_name]

\* vd2 is vd with every running record marked stopped and nothing else changed
Flipped(vd, vd2) ==
    /\ DOMAIN vd2 = DOMAIN vd
    /\ \A u \in DOMAIN vd :
          /\ Len(vd2[u]) = Len(vd[u])
          /\ \A i \in 1..Len(vd[u]) :
                vd2[u][i] = IF vd[u][i].status = "running"
                            THEN [vd[u][i] EXCEPT !.status = "stopped"]
                            ELSE vd[u][i]

-----------------------------------------------------------------------------
(* Properties of the CPU monitor *)

\* the usage a run of top shows: 100 minus the idle figure of its summary line
HostUsage(run) ==
    LET line == CHOOSE l \in {run.stdout[i] : i \in 1..Len(run.stdout)} :
                    \E i \in 1..Len(l) : l[i] = Word("%Cpu(s):")
        k == CHOOSE i \in 2..Len(line) : line[i] = Word("id")
    IN  100 - line[k - 1].n

\* C11: a pass of the enabled monitor starts the bulk stop exactly when the
\* host usage it sampled is above CPU_THRESHOLD; at or below the threshold it
\* issues no command and changes no record.
C11_StopAllIffAboveThreshold ==
    [][(top'.read = top.read + 1 /\ ~top.runs[top.read + 1].raised)
       => LET run == top.runs[top.read + 1]
          IN  /\ (monitor'.pc = "stopping") <=> (HostUsage(run) > CPU_THRESHOLD)
              /\ HostUsage(run) <= CPU_THRESHOLD
                    => UNCHANGED <<vps_data, disk, incus>>]_vars

\* C12: on the host with usage 50, 95, 95, 40 the monitor, once it has taken
\* the four samples, has started the bulk stop exactly once.
C12_OneStopForSequence ==
    (top.runs = SampledHost.runs /\ top.read = 4 /\ monitor.pc = "loop")
    => monitor.stops = 1

\* C13: a monitor that is switched on has a running loop: the thread has not
\* ended, so that it samples again after the interval.
C13_EnabledMonitorRuns == cpu_monitor_active => monitor.pc /= "ended"

\* C14: no step taken while the monitor is switched on ends its loop, and a
\* sample that fails leaves the thread at the head of the loop with the
\* failure logged.
C14_FailureKeepsLoop ==
    [][/\ (cpu_monitor_active /\ monitor.pc /= "ended")
          => monitor'.pc /= "ended"
       /\ (top'.read = top.read + 1 /\ top.runs[top.read + 1].raised)
          => /\ monitor'.pc = "loop"
             /\ monitor'.log = "Error getting CPU usage"
             /\ UNCHANGED <<vps_data, disk, incus>>]_vars

\* top could not be run at the first sample, and the enabled monitor has
\* gone on to take the second
C14_Witness ==
    /\ top.runs = FailingHost.runs
    /\ top.read = 2
    /\ cpu_monitor_active
    /\ monitor.pc = "loop"

-----------------------------------------------------------------------------
(* Reinstall and sharing *)

\* the Confirm handler of the reinstall warning answered in this step, and
\* the runtime had the outcomes delete and launch for its two commands
ReinstallStep(delete, launch) ==
    /\ resp' /= resp
    /\ resp'.op = "confirm_reinstall"
    /\ resp'.delete = delete
    /\ resp'.launch = launch

\* C15: when the force-delete of a reinstall succeeds and the launch after it
\* fails, the failure is reported, the container is gone from the runtime,
\* and the inventory and the saved documents are as they were.
C15_FailedRelaunchLeavesRecord ==
    [][ReinstallStep("ok", "failed")
       => /\ resp'.kind = "Failed"
          /\ resp'.container_name \notin DOMAIN incus'
          /\ UNCHANGED <<vps_data, disk>>]_vars

\* C16: a reinstall whose two commands succeed issues the force-delete and
\* then the launch of the same container with ram * 1024 MB and the record's
\* cpu, marks the record running with created_at now, changes nothing else
\* of the inventory and saves.
C16_ReinstallRelaunchesSameSpec ==
    [][ReinstallStep("ok", "ok")
       => LET u == resp'.owner_id
              i == resp'.index + 1
              old == vps_data[u][i]
          IN  /\ resp'.kind = "Done"
              /\ issued' = <<DeleteCmd(old.container_name),
                             LaunchCmd(old.container_name,
                                       ParseGB(old.ram) * 1024, old.cpu)>>
              /\ vps_data' = [vps_data EXCEPT ![u][i] =
                                 [old EXCEPT !.status = "running",
                                             !.created_at = nops']]
              /\ disk' = Documents(user_data', vps_data', admin_data')]_vars

\* C17: a reinstall asked through a shared view or an admin view, or by
\* somebody else than the view's user, is refused with no command issued and
\* no record, document, container or view changed; the warning with the
\* Confirm button is only ever posted to the owner on the owner's own view,
\* the only view that shows the button.
C17_ReinstallOwnerOnly ==
    [][/\ (resp' /= resp /\ resp'.op = "reinstall")
          => LET v == resp'.view
                 own == ~v.is_shared /\ ~v.is_admin /\ v.user_id = v.owner_id
             IN  IF own /\ resp'.user = v.owner_id
                 THEN resp'.kind \in {"Confirm", "Raised"}
                 ELSE /\ resp'.kind \in {"OwnerOnly", "AccessDenied", "Raised"}
                      /\ "reinstall" \notin add_action_buttons(v)
                             \/ resp'.user /= v.user_id
                      /\ issued' = <<>>
                      /\ UNCHANGED <<vps_data, disk, incus, views>>
       /\ \A cv \in views' \ views :
             cv.kind = "ConfirmReinstall"
                => /\ resp'.op = "reinstall"
                   /\ resp'.kind = "Confirm"
                   /\ resp'.user = cv.owner_id]_vars

\* a shared user who is not the owner asked for a reinstall and was refused
C17_Witness ==
    /\ resp.op = "reinstall"
    /\ resp.kind = "OwnerOnly"
    /\ resp.view.is_shared
    /\ resp.user = resp.view.user_id
    /\ resp.user /= resp.view.owner_id

\* C18: no record lists its owner among the users it is shared with.
C18_OwnerNeverInSharedWith ==
    \A u \in DOMAIN vps_data : \A i \in 1..Len(vps_data[u]) :
        ~InList(u, vps_data[u][i].shared_with)

-----------------------------------------------------------------------------
(* Persistence *)

\* C19: whenever no handler is waiting for the runtime, the saved documents
\* are the three record sets in memory.
C19_SavedWhenIdle ==
    tasks = EmptyBag => disk = Documents(user_data, vps_data, admin_data)

\* C20: when the launch of a create fails, the inventory is what it was when
\* the create was entered: the step itself changes nothing, and an owner who
\* had no entry then has none now.
C20_FailedCreateLeavesInventory ==
    [][\A t \in TaskSet :
          (/\ t.op = "create"
           /\ t.pc = "launch"
           /\ CopiesIn(t, tasks') < CopiesIn(t, tasks)
           /\ resp'.op = "create"
           /\ resp'.kind = "Failed")
          => /\ vps_data' = vps_data
             /\ ~t.listed => t.user_id \notin DOMAIN vps_data']_vars

-----------------------------------------------------------------------------
(* The runner and the address query *)

\* part, a list of lines, stands in text
Contains(text, part) ==
    \E i \in 0..(Len(text) - Len(part)) :
        SubSeq(text, i + 1, i + Len(part)) = part

\* the token stands in some line of text
HasToken(text, token) ==
    \E i \in 1..Len(text) : \E j \in 1..Len(text[i]) : text[i][j] = token

\* C21: a command that runs longer than its timeout ends execute_incus with
\* the timeout error, never with a value.
C21_TimeoutNeverSucceeds ==
    (resp.op = "execute_incus" /\ resp.proc.duration > resp.timeout)
    => /\ resp.result.raised
       /\ resp.result.error = "timed out"
       /\ resp.result.message = TimeoutMsg(resp.timeout)

\* a process that would have exited 0 with output ran past the timeout
C21_Witness ==
    /\ resp.op = "execute_incus"
    /\ resp.proc.duration > resp.timeout
    /\ resp.proc.returncode = 0
    /\ resp.proc.stdout = AddrText
    /\ resp.result.raised

C23_AddressesForEveryOutcome ==
    resp.op = "get_container_ips"
    => LET ran == /\ resp.proc.duration <= IpTimeout
                  /\ resp.proc.returncode = 0
           lines == strip(resp.proc.stdout)
       IN  IF ran
           THEN resp.value = <<FirstAddr(lines, "inet"), FirstAddr(lines, "inet6")>>
           ELSE resp.value = <<"Error", "Error">>

-----------------------------------------------------------------------------
(* Static addresses *)

\* the create task t ended in this step, past its launch, with the answer
\* of the step
CreateEnded(t) ==
    /\ t.op = "create"
    /\ t.pc = "settle"
    /\ CopiesIn(t, tasks') < CopiesIn(t, tasks)
    /\ resp'.op = "create"
    /\ resp'.container_name = t.container_name

\* C24: when a create asked for a static address and applying it failed, the
\* create answers with the success and the warning, the record it appends
\* carries the addresses of the query made before the attempt, and no delete
\* is issued.
C24_StaticFailureFallsBack ==
    [][\A t \in TaskSet :
          (/\ CreateEnded(t)
           /\ t.ipv4 /= None \/ t.ipv6 /= None
           /\ resp'.failAt > 0)
          => LET dynamic == get_container_ips(
                                execute_incus(resp'.first[1], resp'.first[2]))
                 list == vps_data'[t.user_id]
             IN  /\ resp'.kind = "Created"
                 /\ resp'.warning
                 /\ Len(list) = Len(vps_data[t.user_id]) + 1
                 /\ list[Len(list)].container_name = t.container_name
                 /\ list[Len(list)].ipv4 = dynamic[1]
                 /\ list[Len(list)].ipv6 = dynamic[2]
                 /\ \A i \in 1..Len(issued') : issued'[i].cmd /= "delete"
                 /\ t.container_name \in DOMAIN incus'
                 /\ disk' = Documents(user_data', vps_data', admin_data')]_vars

\* a create that asked for a static IPv4 got the record with the address
\* the container had been given
C24_Witness ==
    /\ resp.op = "create"
    /\ resp.kind = "Created"
    /\ resp.warning
    /\ resp.failAt > 0
    /\ resp.first = <<"ok", AddrText>>
    /\ \E s \in Records :
          /\ RecordAt(s).container_name = resp.container_name
          /\ RecordAt(s).ipv4 = "10.0.0.5"

-----------------------------------------------------------------------------
(* Loading the store *)

\* the per-tenant values that encode the one record r: r itself, a dict of
\* one key whose value is r, and the list of r
EncodesRecord(v, r) ==
    \/ v.type = "dict" /\ HasKey(v, "container_name") /\ v = r
    \/ /\ v.type = "dict"
       /\ ~HasKey(v, "container_name")
       /\ Len(v.items) = 1
       /\ v.items[1][2] = r
    \/ v.type = "list" /\ Len(v.items) = 1 /\ v.items[1] = r

\* the <<owner, value>> pairs of the inventory document on disk
StoredPairs ==
    IF disk.vps_data.kind = "json" /\ disk.vps_data.value.type = "dict"
    THEN {disk.vps_data.value.items[i] : i \in 1..Len(disk.vps_data.value.items)}
    ELSE {}

\* C25: an owner whose value in the inventory file is a record r, a dict of
\* one key with the value r, or the list of r, is loaded with the list of r.
C25_LegacyShapesNormalized ==
    (resp.op = "load" /\ resp.kind = "Loaded")
    => \A pair \in StoredPairs, r \in StoredRecords :
          EncodesRecord(pair[2], r)
          => /\ pair[1] \in DOMAIN vps_data
             /\ vps_data[pair[1]] = <<r>>

\* u1 was stored under a key and u2 as the bare record
C25_Witness ==
    /\ resp.op = "load"
    /\ resp.kind = "Loaded"
    /\ <<"u1", JDict(<< <<"0", StoredRecord(1)>> >>)>> \in StoredPairs
    /\ <<"u2", StoredRecord(2)>> \in StoredPairs
    /\ vps_data["u1"] = <<StoredRecord(1)>>
    /\ vps_data["u2"] = <<StoredRecord(2)>>

\* C26: the load ends without an error whatever the three files are: a
\* missing or unreadable file gives the default of its set, and of the
\* inventory document every owner is loaded but those whose value is
\* neither a dict nor a list.
C26_LoadNeverFails ==
    resp.op = "load"
    => /\ resp.kind = "Loaded"
       /\ disk.user_data.kind /= "json" => user_data = LoadedUserData
       /\ disk.vps_data.kind /= "json" => vps_data = LoadedVpsData
       /\ disk.admin_data.kind /= "json" => admin_data = LoadedAdminData
       /\ DOMAIN vps_data =
             {pair[1] : pair \in {q \in StoredPairs : q[2].type \in {"dict", "list"}}}

-----------------------------------------------------------------------------
(* Backup, restore, exec *)

\* C27: no step of a backup, a restore or an exec, whether the handler starts
\* or its command ends, well or not, changes the ledger, the inventory or
\* the admin set, or writes the documents.
C27_ToolsChangeNoRecord ==
    [][(/\ resp'.op \in {"backup", "restore", "exec"}
        /\ resp' /= resp \/ tasks' /= tasks)
       => UNCHANGED <<user_data, vps_data, admin_data, disk>>]_vars

\* a restore succeeded on a container whose record is marked stopped
C27_Witness ==
    /\ resp.op = "restore"
    /\ resp.kind = "Restored"
    /\ \E s \in Records :
          /\ RecordAt(s).container_name = resp.container_name
          /\ RecordAt(s).status = "stopped"

\* what the embed must show of a stream: all of it up to the bound, the
\* first OutputLimit characters and the marker beyond
Shown(text) ==
    IF Len(text) <= OutputLimit THEN text
    ELSE [i \in 1..(OutputLimit + 1) |->
            IF i <= OutputLimit THEN text[i] ELSE Truncated[1]]

Names(vd, u) ==
    IF u \in DOMAIN vd THEN [i \in 1..Len(vd[u]) |-> vd[u][i].container_name]
    ELSE <<>>

\* C29: no step changes the container name of a record that stays in the
\* inventory.  In every step each owner's names are the ones before the
\* step, in the same order, with at most one taken out by a delete or one
\* put at the end by a create; start, stop, restart, reinstall, set-ip,
\* share, revoke and the bulk stop leave every name at its place.
C29_ContainerNameKept ==
    [][\A u \in Tenants :
          \/ Names(vps_data', u) = Names(vps_data, u)
          \/ /\ resp'.op = "delete"
             /\ \E i \in 1..Len(Names(vps_data, u)) :
                   Names(vps_data', u) = RemoveAt(Names(vps_data, u), i)
          \/ /\ resp'.op = "create"
             /\ Len(Names(vps_data', u)) = Len(Names(vps_data, u)) + 1
             /\ SubSeq(Names(vps_data', u), 1, Len(Names(vps_data, u)))
                   = Names(vps_data, u)]_vars

\* /set_ip has written its address in a record of u1 whose neighbour was
\* deleted while the command ran, and the record is listed under its name
C29_Witness ==
    /\ resp.op = "set_ip" /\ resp.kind = "StaticIpSet"
    /\ Names(vps_data, "u1") = <<resp.container_name>>
    /\ vps_data["u1"][1].ipv4 = StaticIPv4
    /\ resp.container_name = ContainerName("u1", 2)

\* C30: a create whose launch succeeded ends with its record in the owner's
\* inventory, whatever was deleted while it waited on the runtime: the step
\* that ends the create answers with the success and leaves a record of the
\* container's name in the owner's list.
C30_LaunchedCreateIsRecorded ==
    [][\A t \in TaskSet :
          CreateEnded(t)
          => /\ resp'.kind = "Created"
             /\ t.user_id \in DOMAIN vps_data'
             /\ \E i \in 1..Len(vps_data'[t.user_id]) :
                   vps_data'[t.user_id][i].container_name = t.container_name]_vars

\* C31: the VPS number a successful create or purchase reports is the place
\* of the new record in the owner's list at the moment it is appended: the
\* step that answers with the success reports the length the list has after
\* the append.
C31_ReportedNumberIsPlace ==
    [][(/\ resp'.op \in {"create", "buywc"}
        /\ resp'.kind = "Created"
        /\ resp' /= resp \/ tasks' /= tasks)
       => resp'.vps_count = Len(vps_data'[resp'.user_id])]_vars

\* C32: an action taken through a shared view acts on the record the view
\* was opened for, the one whose shared_with was checked: every start, stop
\* and SSH that a shared view lets through names the container of that
\* record.
C32_SharedViewActsOnItsRecord ==
    [][(/\ resp'.op \in {"start", "stop", "tmate"}
        /\ resp'.kind \notin {"AccessDenied", "Raised"}
        /\ resp'.view.is_shared
        /\ resp' /= resp)
       => resp'.container_name = resp'.view.vps]_vars

\* C33: a button of a management view answers only the tenant the view was
\* opened for: pressed by anyone else, on a view of any kind, it is refused
\* with access denied and no command goes to the runtime.
C33_ViewAnswersItsUserOnly ==
    [][(/\ resp'.op \in Buttons
        /\ resp'.user /= resp'.view.user_id
        /\ resp' /= resp)
       => /\ resp'.kind = "AccessDenied"
          /\ issued' = <<>>]_vars

\* the tenant is in the shared_with of the owner's record of that name
SharedNow(owner_id, container_name, user) ==
    /\ owner_id \in DOMAIN vps_data
    /\ \E i \in 1..Len(vps_data[owner_id]) :
          /\ vps_data[owner_id][i].container_name = container_name
          /\ InList(user, vps_data[owner_id][i].shared_with)

\* C34: once a tenant's access to a VPS is revoked, a start or stop the
\* tenant asks for on it is refused, also on a shared view opened before
\* the revoke: a start or stop pressed on a shared view by a tenant who is
\* no longer in the record's shared_with is answered with access denied and
\* no command goes to the runtime.
C34_RevokedTenantRefused ==
    [][(/\ resp'.op \in {"start", "stop"}
        /\ resp'.view.is_shared
        /\ resp'.user = resp'.view.user_id
        /\ ~SharedNow(resp'.view.owner_id, resp'.view.vps, resp'.user)
        /\ resp' /= resp)
       => /\ resp'.kind = "AccessDenied"
          /\ issued' = <<>>]_vars

\* C35: no tenant's credit balance is ever negative, in memory or in the
\* saved ledger, whatever purchases, additions, removals and balance queries
\* have run.
C35_BalanceNeverNegative ==
    /\ \A u \in DOMAIN user_data : user_data[u].credits >= 0
    /\ \A u \in DOMAIN disk.user_data : disk.user_data[u].credits >= 0

\* more was asked to be removed than u2 had left after a purchase, and the
\* balance was taken to zero
C35_Witness ==
    /\ resp.op = "adminrc" /\ resp.kind = "CreditsRemoved"
    /\ resp.asked = <<"9", "9">>
    /\ resp.removed = 8
    /\ user_data["u2"].credits = 0
    /\ Len(vps_data["u2"]) >= 1

\* C36: a purchase whose launch fails or times out costs nothing: when the
\* purchase ends with the failure, the charge it took before the launch is
\* back on the tenant's balance, and the saved ledger shows that balance.
C36_FailedPurchaseCostsNothing ==
    [][\A t \in TaskSet :
          (/\ t.op = "buywc" /\ t.pc = "launch"
           /\ CopiesIn(t, tasks') < CopiesIn(t, tasks)
           /\ resp'.op = "buywc" /\ resp'.kind = "Failed")
          => /\ user_data'[t.user_id].credits
                   = user_data[t.user_id].credits + t.cost
             /\ t.user_id \in DOMAIN disk'.user_data
             /\ disk'.user_data[t.user_id].credits
                   = user_data'[t.user_id].credits]_vars

\* C37: the monitor is level-triggered: every pass of the enabled monitor
\* that samples a host above CPU_THRESHOLD starts the bulk stop, whether or
\* not the pass before it did.
C37_StopAtEveryBreach ==
    [][(/\ top'.read = top.read + 1
        /\ ~top.runs[top.read + 1].raised
        /\ HostUsage(top.runs[top.read + 1]) > CPU_THRESHOLD)
       => /\ monitor'.stops = monitor.stops + 1
          /\ monitor'.pc = "stopping"]_vars

\* C38: the sample the monitor gets is 100 minus the idle figure of the
\* summary line whenever top printed one, and 0 when top could not be run.
C38_SampleIsHostUsage ==
    [][(top'.read = top.read + 1)
       => LET run == top.runs[top.read + 1]
          IN  monitor'.cpu_usage = IF run.raised THEN 0 ELSE HostUsage(run)]_vars

\* C39: the main admin's identifier is never in the admin set, the set has
\* no member twice, and the main admin passes the admin check, from the
\* state loaded at start through every admin-add and admin-remove.
C39_MainAdminOutsideSet ==
    /\ ~InList(MAIN_ADMIN_ID, admin_data.admins)
    /\ \A i, j \in 1..Len(admin_data.admins) :
          admin_data.admins[i] = admin_data.admins[j] => i = j
    /\ IsAdminCaller(MAIN_ADMIN_ID)

\* C40: every handler that waits on the runtime gets a result in the end,
\* also when the process it started never exits: whenever handlers are
\* waiting, a state follows in which none is.
C40_EveryWaitEnds == (tasks /= EmptyBag) ~> (tasks = EmptyBag)

=============================================================================
